---- MODULE Spec2Model ----
(***************************************************************************)
(* marie-ssg: build orchestration, static-asset hashing and static sync.   *)
(*                                                                         *)
(* File names and relative paths are sequences of one-character strings,   *)
(* so that the string operations of the code (rsplitn, rfind, extension,   *)
(* parent, join, format!) are modelled by what they do.  File contents are *)
(* byte strings.  BLAKE3 is an unknown but fixed function of the bytes:    *)
(* its value on a content is chosen when that content is first hashed and  *)
(* remembered in digest.                                                   *)
(***************************************************************************)
EXTENDS Integers, Sequences, FiniteSets, TLC

VARIABLES
    staticExists,   \* the static source directory exists
    src,            \* static source tree: relative path -> [content, mtime]
    out,            \* <output_dir>/static: relative path -> [content, mtime]
    root,           \* files at the root of <output_dir>: name -> [content, mtime]
    rootStatic,     \* config.site.root_static: output filename -> source relative path
    now,            \* the file system clock
    platform,       \* what fs::copy and Metadata::modified do on this platform
    digest,         \* BLAKE3 prefix (first 4 bytes) of every content hashed so far
    manifest,       \* the AssetManifest returned by the last asset-hashing run
    removedCount,   \* files removed by the cleanup of the last asset-hashing run
    lastOp,         \* the last operation: "init", "edit", "hash", "sync"
    streak,         \* asset-hashing runs in a row, up to 2, since another operation
    lastResult,     \* its result: "ok" or "err"
    errorPath,      \* the path its error names, <<>> if none
    edits,          \* number of changes made to the static source so far
    config,         \* the Config loaded by the build
    pc,             \* the stage the build is at ("idle" when no build runs)
    stageLog,       \* the stages of this build that have completed, in order
    env,            \* the template environment: [some, manifest] of its global
    files,          \* the discovered content files, in discovery order
    taskState,      \* per discovered file: "pending", "running", "skipped",
                    \* "ok" or the error its task returned
    completed,      \* indices of the finished tasks, in completion order
    savedError,     \* the error slot of the parallel collect
    loaded,         \* the LoadedContent collection: [some, items]
    written,        \* the artifacts written by this build, in order
    buildError,     \* the error the build returned, if it failed
    task,           \* one call of the closure of the parallel map: its locals
    watch,          \* the watch loop: its position, channel, timer and builds
    tracing         \* the entry point of the build and the spans it entered

fsVars == <<staticExists, src, out, root, rootStatic, now, platform, digest,
            manifest, removedCount, lastOp, streak, lastResult, errorPath,
            edits>>

buildVars == <<config, pc, stageLog, env, files, taskState, completed,
               savedError, loaded, written, buildError>>

vars == <<fsVars, buildVars, task, watch, tracing>>

----------------------------------------------------------------------------
(* Bounds *)

MaxLen == 2          \* longest file content, in bytes
MaxEdits == 2        \* changes to the static source in one behaviour
MaxTime == 2         \* last tick of the file system clock
NumHashes == 2       \* distinct BLAKE3 prefixes the model draws from
MaxFiles == 2        \* content files found by the discovery
NumWorkers == 2      \* threads of the worker pool
MaxEvents == 3       \* events the observer sends to the watch loop
MaxElapsed == 3      \* ticks counted since last_build: from 2 on the debounce is over
MaxFragments == 3    \* pieces of a document given to add_header_anchors

(* Program constants *)

HashHexLen == 8      \* hex characters kept of the BLAKE3 digest

----------------------------------------------------------------------------
(* Characters and paths *)

Dot == "."
Slash == "/"
Backslash == "\\"

HexDigits == <<"0", "1", "2", "3", "4", "5", "6", "7", "8", "9",
               "a", "b", "c", "d", "e", "f">>

Css == <<"c", "s", "s">>
Js == <<"j", "s">>
StaticPrefix == <<"/", "s", "t", "a", "t", "i", "c", "/">>

\* char::is_ascii_hexdigit
IsAsciiHexdigit(c) ==
    c \in {"0", "1", "2", "3", "4", "5", "6", "7", "8", "9",
           "a", "b", "c", "d", "e", "f", "A", "B", "C", "D", "E", "F"}

\* str::rfind(ch): index of the last occurrence, 0 if there is none
RECURSIVE RFindFrom(_, _, _)
RFindFrom(s, ch, i) ==
    IF i = 0 THEN 0
    ELSE IF s[i] = ch THEN i
    ELSE RFindFrom(s, ch, i - 1)

RFind(s, ch) == RFindFrom(s, ch, Len(s))

\* Path::file_name of a relative path
FileNameOf(p) == SubSeq(p, RFind(p, Slash) + 1, Len(p))

\* Path::parent of a relative path ("" for a file at the top level)
ParentOf(p) ==
    LET i == RFind(p, Slash)
    IN IF i = 0 THEN <<>> ELSE SubSeq(p, 1, i - 1)

\* Path::join
JoinPath(dir, name) == IF dir = <<>> THEN name ELSE dir \o <<Slash>> \o name

\* Path::extension().and_then(to_str).unwrap_or(""): the part after the last
\* dot of the file name; none when there is no dot or the only dot leads.
ExtensionOf(p) ==
    LET f == FileNameOf(p)
        d == RFind(f, Dot)
    IN IF d <= 1 THEN <<>> ELSE SubSeq(f, d + 1, Len(f))

\* to_string_lossy().replace('\\', "/")
ToSlashes(p) == [i \in 1..Len(p) |-> IF p[i] = Backslash THEN Slash ELSE p[i]]

\* blake3::Hash::to_hex()[..8]: the first 4 bytes, as 8 lower-case hex digits
ToHex8(n) ==
    [i \in 1..HashHexLen |->
        HexDigits[((n \div (16 ^ (HashHexLen - i))) % 16) + 1]]

----------------------------------------------------------------------------
(* asset_hash.rs *)

\* is_hashed_filename that forgets the js extension
is_hashed_filename_css_only(filename) ==
    LET d1 == RFind(filename, Dot)
    IN IF d1 = 0 THEN FALSE
       ELSE
         LET ext == SubSeq(filename, d1 + 1, Len(filename))
             name_with_hash == SubSeq(filename, 1, d1 - 1)
             d2 == RFind(name_with_hash, Dot)
         IN IF ext # Css THEN FALSE
            ELSE IF d2 = 0 THEN FALSE
            ELSE
              LET potential_hash ==
                      SubSeq(name_with_hash, d2 + 1, Len(name_with_hash))
              IN /\ Len(potential_hash) = 8
                 /\ \A i \in 1..Len(potential_hash) :
                        IsAsciiHexdigit(potential_hash[i])

is_hashed_filename(filename) ==
    LET d1 == RFind(filename, Dot)
    IN IF d1 = 0 THEN FALSE
       ELSE
         LET ext == SubSeq(filename, d1 + 1, Len(filename))
             name_with_hash == SubSeq(filename, 1, d1 - 1)
             d2 == RFind(name_with_hash, Dot)
         IN IF ext # Css /\ ext # Js THEN FALSE
            ELSE IF d2 = 0 THEN FALSE
            ELSE
              LET potential_hash ==
                      SubSeq(name_with_hash, d2 + 1, Len(name_with_hash))
              IN /\ Len(potential_hash) = 8
                 /\ \A i \in 1..Len(potential_hash) :
                        IsAsciiHexdigit(potential_hash[i])

\* hashed_filename that puts the hash after the extension
hashed_filename_appended(original, hash) == original \o <<Dot>> \o hash

hashed_filename(original, hash) ==
    LET dot_pos == RFind(original, Dot)
    IN IF dot_pos # 0
       THEN SubSeq(original, 1, dot_pos - 1) \o <<Dot>> \o hash
                \o SubSeq(original, dot_pos, Len(original))
       ELSE original \o <<Dot>> \o hash

\* compute_file_hash that mixes the path into the hash
compute_file_hash_of_path(d, path) ==
    ToHex8(d[src[path].content] + Len(path))

\* compute_file_hash: reads the file at the path and keeps the first 8 hex
\* characters of the BLAKE3 digest of its bytes (d: the digest function)
compute_file_hash(d, path) == ToHex8(d[src[path].content])

EmptyMap == [x \in {} |-> x]

\* fs::copy: the destination gets the source's bytes; its modification time is
\* the time of the copy (Linux) or the source's (macOS: clonefile/COPYFILE_ALL)
CopyOf(f) ==
    [content |-> f.content,
     mtime |-> IF platform = "macos" THEN f.mtime ELSE now]

\* cleanup_old_hashed_files that removes nothing
cleanup_nothing(tree) == tree

\* cleanup_old_hashed_files: the tree without the files whose name matches
\* name.XXXXXXXX.css/js (an absent directory has no files)
cleanup_old_hashed_files(tree) ==
    LET kept == {q \in DOMAIN tree : ~is_hashed_filename(FileNameOf(q))}
    IN [q \in kept |-> tree[q]]

\* One iteration of the WalkDir loop of hash_static_assets, for source_path
HashOne(d, source_path, acc) ==
    LET extension == ExtensionOf(source_path)
        original_filename == FileNameOf(source_path)
    IN IF extension # Css /\ extension # Js THEN acc
       ELSE IF is_hashed_filename(original_filename) THEN acc
       ELSE
         LET hash == compute_file_hash(d, source_path)
             hashed_name == hashed_filename(original_filename, hash)
             dest_relative == JoinPath(ParentOf(source_path), hashed_name)
             original_key == ToSlashes(source_path)
             hashed_url == StaticPrefix \o ToSlashes(dest_relative)
         IN [tree |-> (dest_relative :> CopyOf(src[source_path])) @@ acc.tree,
             manifest |-> (original_key :> hashed_url) @@ acc.manifest]

RECURSIVE HashWalk(_, _, _)
HashWalk(d, todo, acc) ==
    IF todo = {} THEN acc
    ELSE LET p == CHOOSE x \in todo : TRUE
         IN HashWalk(d, todo \ {p}, HashOne(d, p, acc))

\* hash_static_assets: the new output/static tree and the returned manifest
hash_static_assets(d) ==
    IF ~staticExists
    THEN [tree |-> out, manifest |-> EmptyMap, removed |-> 0]
    ELSE
      LET cleaned == cleanup_old_hashed_files(out)
          walked == HashWalk(d, DOMAIN src,
                             [tree |-> cleaned, manifest |-> EmptyMap])
      IN [tree |-> walked.tree, manifest |-> walked.manifest,
          removed |-> Cardinality(DOMAIN out \ DOMAIN cleaned)]

----------------------------------------------------------------------------
(* The files and contents the model draws from *)

PathCss == <<"c", "/", "a", ".", "c", "s", "s">>
PathJs == <<"b", ".", "j", "s">>
PathPng == <<"i", ".", "p", "n", "g">>
\* a source file whose own name matches the hashed pattern
PathHashed ==
    <<"c", "/", "a", ".", "0", "0", "0", "0", "0", "0", "0", "0", ".", "c", "s", "s">>
PathIco == <<"f", ".", "i", "c", "o">>
NameFavicon == <<"f", "a", "v", ".", "i", "c", "o">>

AssetPaths == {PathCss, PathJs, PathPng, PathHashed}
SyncPaths == {PathCss, PathIco}
\* the root_static maps: none, a source written as the walk yields it, the
\* same source written with a leading "./"
RootStaticConfigs ==
    {EmptyMap, NameFavicon :> PathIco, NameFavicon :> (<<".", "/">> \o PathIco)}

Bytes == {0, 1}

\* a static source to start from: a css asset in a subdirectory, an image and
\* a file whose name is already hashed
InitialTree ==
    (PathCss :> [content |-> <<0>>, mtime |-> 0])
    @@ (PathPng :> [content |-> <<0>>, mtime |-> 0])
    @@ (PathHashed :> [content |-> <<1>>, mtime |-> 0])
Contents == {[i \in 1..n |-> b] : n \in 1..MaxLen, b \in Bytes}
\* asset hashing never reads a size: its runs are explored on one-byte files
ByteContents == {c \in Contents : Len(c) = 1}
HashSpace == 0..(NumHashes - 1)

\* the digest function extended by a value for every content not hashed before
DigestExtensions(needed) ==
    {digest @@ e : e \in [needed \ DOMAIN digest -> HashSpace]}

\* the contents hash_static_assets reads in this run
ContentsToHash ==
    IF ~staticExists THEN {}
    ELSE {src[p].content : p \in
            {q \in DOMAIN src :
                /\ ExtensionOf(q) \in {Css, Js}
                /\ ~is_hashed_filename(FileNameOf(q))}}

----------------------------------------------------------------------------
(* Changes made to the static source between runs *)

EnvWrite(paths, contents) ==
    /\ edits < MaxEdits
    /\ \E p \in paths, c \in contents :
          /\ src' = (p :> [content |-> c, mtime |-> now]) @@ src
          /\ (p \in DOMAIN src => src[p].content # c)
    /\ staticExists' = TRUE
    /\ edits' = edits + 1
    /\ lastOp' = "edit"
    /\ streak' = 0
    /\ lastResult' = "ok"
    /\ errorPath' = <<>>
    /\ UNCHANGED <<out, root, rootStatic, now, platform, digest, manifest,
                   removedCount>>

EnvRemove ==
    /\ edits < MaxEdits
    /\ \E p \in DOMAIN src :
          src' = [q \in DOMAIN src \ {p} |-> src[q]]
    /\ edits' = edits + 1
    /\ lastOp' = "edit"
    /\ streak' = 0
    /\ lastResult' = "ok"
    /\ errorPath' = <<>>
    /\ UNCHANGED <<staticExists, out, root, rootStatic, now, platform, digest,
                   manifest, removedCount>>

\* mv: the file keeps its bytes and its modification time
EnvRename(paths) ==
    /\ edits < MaxEdits
    /\ \E p \in DOMAIN src, q \in paths \ DOMAIN src :
          src' = (q :> src[p]) @@ [r \in DOMAIN src \ {p} |-> src[r]]
    /\ edits' = edits + 1
    /\ lastOp' = "edit"
    /\ streak' = 0
    /\ lastResult' = "ok"
    /\ errorPath' = <<>>
    /\ UNCHANGED <<staticExists, out, root, rootStatic, now, platform, digest,
                   manifest, removedCount>>

EnvRemoveStaticDir ==
    /\ edits < MaxEdits
    /\ staticExists
    /\ staticExists' = FALSE
    /\ src' = EmptyMap
    /\ edits' = edits + 1
    /\ lastOp' = "edit"
    /\ streak' = 0
    /\ lastResult' = "ok"
    /\ errorPath' = <<>>
    /\ UNCHANGED <<out, root, rootStatic, now, platform, digest, manifest,
                   removedCount>>

Tick ==
    /\ now < MaxTime
    /\ now' = now + 1
    /\ UNCHANGED <<staticExists, src, out, root, rootStatic, platform, digest,
                   manifest, removedCount, lastOp, streak, lastResult,
                   errorPath, edits>>

----------------------------------------------------------------------------
(* An asset-hashing run: hash_static_assets(static_dir, output_dir) *)

HashStaticAssets ==
    /\ \E d \in DigestExtensions(ContentsToHash) :
          /\ digest' = d
          /\ \E r \in {hash_static_assets(d)} :
                /\ out' = r.tree
                /\ manifest' = r.manifest
                /\ removedCount' = r.removed
    /\ lastOp' = "hash"
    /\ streak' = IF streak < 2 THEN streak + 1 ELSE streak
    /\ lastResult' = "ok"
    /\ errorPath' = <<>>
    /\ UNCHANGED <<staticExists, src, root, rootStatic, now, platform, edits>>

----------------------------------------------------------------------------
(* output.rs: static sync *)

Platforms == {"linux", "macos", "no_mtime"}

\* should_copy_file without the comparison of the sizes
should_copy_file_by_mtime_only(source, tree, dest_path) ==
    IF dest_path \notin DOMAIN tree THEN TRUE
    ELSE IF platform = "no_mtime" THEN TRUE
    ELSE source.mtime > tree[dest_path].mtime

\* should_copy_file(source, dest); dest_path may not exist
should_copy_file(source, tree, dest_path) ==
    IF dest_path \notin DOMAIN tree THEN TRUE
    ELSE IF Len(source.content) # Len(tree[dest_path].content) THEN TRUE
    ELSE IF platform = "no_mtime" THEN TRUE
    ELSE source.mtime > tree[dest_path].mtime

\* an iteration that leaves out the files whose name looks hashed
SyncOne_skip_hashed(source_path, tree) ==
    IF \E k \in DOMAIN rootStatic : rootStatic[k] = source_path THEN tree
    ELSE IF is_hashed_filename(FileNameOf(source_path)) THEN tree
    ELSE IF ~should_copy_file(src[source_path], tree, source_path) THEN tree
    ELSE (source_path :> CopyOf(src[source_path])) @@ tree

\* One iteration of the WalkDir loop of copy_static_files
SyncOne(source_path, tree) ==
    IF \E k \in DOMAIN rootStatic : rootStatic[k] = source_path THEN tree
    ELSE IF ~should_copy_file(src[source_path], tree, source_path) THEN tree
    ELSE (source_path :> CopyOf(src[source_path])) @@ tree

RECURSIVE SyncWalk(_, _)
SyncWalk(todo, tree) ==
    IF todo = {} THEN tree
    ELSE LET p == CHOOSE x \in todo : TRUE
         IN SyncWalk(todo \ {p}, SyncOne(p, tree))

\* the file that static_dir.join(relative) names: the file system skips the
\* "." components of a path
RECURSIVE ResolveJoined(_)
ResolveJoined(relative) ==
    IF Len(relative) >= 2 /\ SubSeq(relative, 1, 2) = <<".", "/">>
    THEN ResolveJoined(SubSeq(relative, 3, Len(relative)))
    ELSE relative

\* static_dir.join(source_relative_path), as the error prints it
StaticDirName == <<"s", "t", "a", "t", "i", "c">>
JoinedSourcePath(relative) == StaticDirName \o <<"/">> \o relative

\* copy_root_static_files: the loop over config.site.root_static stops with an
\* error at the first declared source that does not exist
RECURSIVE copy_root_static_files(_, _)
copy_root_static_files(todo, acc) ==
    IF todo = {} THEN acc
    ELSE
      LET output_filename == CHOOSE k \in todo : TRUE
          source_path == ResolveJoined(rootStatic[output_filename])
      IN IF source_path \notin DOMAIN src
         THEN [tree |-> acc.tree, result |-> "err",
               path |-> JoinedSourcePath(rootStatic[output_filename])]
         ELSE IF ~should_copy_file(src[source_path], acc.tree, output_filename)
         THEN copy_root_static_files(todo \ {output_filename}, acc)
         ELSE copy_root_static_files(todo \ {output_filename},
                [tree |-> (output_filename :> CopyOf(src[source_path])) @@ acc.tree,
                 result |-> "ok", path |-> <<>>])

\* copy_static_files(config): the new output/static tree, the new files at the
\* output root and the result
copy_static_files ==
    IF ~staticExists
    THEN [tree |-> out, root |-> root, result |-> "ok", path |-> <<>>]
    ELSE
      LET r == copy_root_static_files(DOMAIN rootStatic,
                                      [tree |-> root, result |-> "ok",
                                       path |-> <<>>])
      IN [tree |-> SyncWalk(DOMAIN src, out), root |-> r.tree,
          result |-> r.result, path |-> r.path]

CopyStaticFiles ==
    /\ \E r \in {copy_static_files} :
          /\ out' = r.tree
          /\ root' = r.root
          /\ lastResult' = r.result
          /\ errorPath' = r.path
    /\ lastOp' = "sync"
    /\ streak' = 0
    /\ UNCHANGED <<staticExists, src, rootStatic, now, platform, digest,
                   manifest, removedCount, edits>>

----------------------------------------------------------------------------
(* The state of the build when no build runs *)

NoManifest == [some |-> FALSE, manifest |-> EmptyMap]
NoError == [some |-> FALSE]
NoLoaded == [some |-> FALSE, items |-> <<>>]

DefaultConfig ==
    [asset_hashing_enabled |-> FALSE, asset_manifest_path |-> FALSE,
     sitemap_enabled |-> FALSE, rss_enabled |-> FALSE,
     content |-> {}, redirects |-> {}]

NoBuild ==
    /\ config = DefaultConfig
    /\ pc = "idle"
    /\ stageLog = <<>>
    /\ env = NoManifest
    /\ files = <<>>
    /\ taskState = <<>>
    /\ completed = <<>>
    /\ savedError = NoError
    /\ loaded = NoLoaded
    /\ written = <<>>
    /\ buildError = NoError

----------------------------------------------------------------------------
(* utils.rs, build.rs: from a content file to its output path *)

\* Option<T>
None == <<>>
Some(x) == <<x>>

PageLabel == <<"p", "a", "g", "e">>
IndexHtml == <<"i", "n", "d", "e", "x", ".", "h", "t", "m", "l">>
HtmlSuffix == <<".", "h", "t", "m", "l">>
StemPattern == <<"{", "s", "t", "e", "m", "}">>
DateStemPattern == <<"{", "d", "a", "t", "e", "}", "-", "{", "s", "t", "e", "m", "}">>
DateNaming == <<"d", "a", "t", "e">>

\* the pieces of s between the occurrences of ch
RECURSIVE SplitOn(_, _, _)
SplitOn(s, ch, piece) ==
    IF s = <<>> THEN <<piece>>
    ELSE IF Head(s) = ch THEN <<piece>> \o SplitOn(Tail(s), ch, <<>>)
    ELSE SplitOn(Tail(s), ch, Append(piece, Head(s)))

\* Path::components of a relative path: repeated separators and "." vanish
Components(p) ==
    SelectSeq(SplitOn(p, Slash, <<>>), LAMBDA c : c # <<>> /\ c # <<Dot>>)

\* Path::strip_prefix: by whole components
strip_prefix(p, base) ==
    LET cs == Components(p)
        bs == Components(base)
    IN IF Len(bs) <= Len(cs) /\ SubSeq(cs, 1, Len(bs)) = bs
       THEN [ok |-> TRUE, rest |-> SubSeq(cs, Len(bs) + 1, Len(cs))]
       ELSE [ok |-> FALSE, rest |-> <<>>]

\* get_content_type(file, content_dir): the first component after the
\* content directory, "page" when there is none
get_content_type(file, content_dir) ==
    LET r == strip_prefix(file, content_dir)
    IN IF r.ok /\ r.rest # <<>> THEN r.rest[1] ELSE PageLabel

\* a choice that lets the legacy naming win over an explicit url_pattern
url_pattern_legacy_first(content, content_type) ==
    IF content_type \notin DOMAIN content THEN StemPattern
    ELSE IF content[content_type].output_naming = Some(DateNaming)
    THEN DateStemPattern
    ELSE IF content[content_type].url_pattern # None
    THEN content[content_type].url_pattern[1]
    ELSE StemPattern

\* the pattern of a content type: url_pattern, else output_naming = "date",
\* else "{stem}"
url_pattern_for(content, content_type) ==
    IF content_type \notin DOMAIN content THEN StemPattern
    ELSE IF content[content_type].url_pattern # None
    THEN content[content_type].url_pattern[1]
    ELSE IF content[content_type].output_naming = Some(DateNaming)
    THEN DateStemPattern
    ELSE StemPattern

EndsWith(s, suffix) ==
    /\ Len(suffix) <= Len(s)
    /\ SubSeq(s, Len(s) - Len(suffix) + 1, Len(s)) = suffix

\* str::strip_suffix(..).unwrap_or(s) over the known extensions, in order
StripKnownExtension(filename) ==
    LET cut(suffix) == SubSeq(filename, 1, Len(filename) - Len(suffix))
    IN IF EndsWith(filename, <<".", "m", "d">>) THEN cut(<<".", "m", "d">>)
       ELSE IF EndsWith(filename, <<".", "m", "a", "r", "k", "d", "o", "w", "n">>) THEN cut(<<".", "m", "a", "r", "k", "d", "o", "w", "n">>)
       ELSE IF EndsWith(filename, HtmlSuffix) THEN cut(HtmlSuffix)
       ELSE filename

\* char::is_ascii_digit
IsAsciiDigit(c) == c \in {"0", "1", "2", "3", "4", "5", "6", "7", "8", "9"}

DatePrefixLen == 11

\* extract_slug_from_filename that does not look at the digits
extract_slug_hyphens_only(filename) ==
    LET name == StripKnownExtension(filename)
    IN IF /\ Len(name) > DatePrefixLen
          /\ name[5] = "-" /\ name[8] = "-" /\ name[11] = "-"
       THEN SubSeq(name, DatePrefixLen + 1, Len(name))
       ELSE name

\* extract_slug_from_filename(filename)
extract_slug_from_filename(filename) ==
    LET name == StripKnownExtension(filename)
    IN IF /\ Len(name) > DatePrefixLen
          /\ name[5] = "-" /\ name[8] = "-" /\ name[11] = "-"
          /\ \A i \in {1, 2, 3, 4, 6, 7, 9, 10} : IsAsciiDigit(name[i])
       THEN SubSeq(name, DatePrefixLen + 1, Len(name))
       ELSE name

DecimalDigits == <<"0", "1", "2", "3", "4", "5", "6", "7", "8", "9">>

\* a number in w digits, zero-padded
Padded(n, w) ==
    [i \in 1..w |-> DecimalDigits[((n \div (10 ^ (w - i))) % 10) + 1]]

\* the date as [year]-[month]-[day]
FormatDate(date) ==
    Padded(date.year, 4) \o <<"-">> \o Padded(date.month, 2) \o <<"-">>
    \o Padded(date.day, 2)

\* str::replace: every occurrence of pat, left to right
RECURSIVE ReplaceAll(_, _, _)
ReplaceAll(s, pat, val) ==
    IF Len(s) < Len(pat) THEN s
    ELSE IF SubSeq(s, 1, Len(pat)) = pat
    THEN val \o ReplaceAll(SubSeq(s, Len(pat) + 1, Len(s)), pat, val)
    ELSE <<Head(s)>> \o ReplaceAll(Tail(s), pat, val)

\* resolve_url_pattern(pattern, filename, date)
resolve_url_pattern(pattern, filename, date) ==
    LET stem == extract_slug_from_filename(filename)
        r1 == ReplaceAll(pattern, StemPattern, stem)
        r2 == ReplaceAll(r1, <<"{", "d", "a", "t", "e", "}">>, FormatDate(date))
        r3 == ReplaceAll(r2, <<"{", "y", "e", "a", "r", "}">>, Padded(date.year, 4))
        r4 == ReplaceAll(r3, <<"{", "m", "o", "n", "t", "h", "}">>, Padded(date.month, 2))
    IN ReplaceAll(r4, <<"{", "d", "a", "y", "}">>, Padded(date.day, 2))

\* a build_output_path that ignores clean_urls
build_output_path_flat(content_type, resolved, output_dir, clean_urls) ==
    JoinPath(JoinPath(output_dir, content_type), resolved) \o HtmlSuffix

\* build_output_path(content_type, resolved, output_dir, clean_urls)
build_output_path(content_type, resolved, output_dir, clean_urls) ==
    LET base == JoinPath(JoinPath(output_dir, content_type), resolved)
    IN IF clean_urls THEN JoinPath(base, IndexHtml) ELSE base \o HtmlSuffix

ContentDir == <<"c", "o", "n", "t", "e", "n", "t">>
OutputDir == <<"o", "u", "t">>

----------------------------------------------------------------------------
(* The closure of the parallel map, one call at a time *)

Blog == <<"b", "l", "o", "g">>

\* the files and sidecar dates the closure is applied to
TaskFiles ==
    {<<"c", "o", "n", "t", "e", "n", "t", "/", "b", "l", "o", "g", "/", "a", ".", "m", "d">>,
     <<"c", "o", "n", "t", "e", "n", "t", "/", "b", "l", "o", "g", "/", "2", "0", "2", "4", "-", "0", "1", "-", "1", "5", "-", "a", ".", "m", "d">>,
     <<"c", "o", "n", "t", "e", "n", "t", "/", "b", "l", "o", "g", "/", "x", "/", "b", ".", "m", "a", "r", "k", "d", "o", "w", "n">>,
     <<"c", "o", "n", "t", "e", "n", "t", "/", "c", ".", "m", "d">>,
     <<"o", "t", "h", "e", "r", "/", "d", ".", "m", "d">>,
     <<"c", "o", "n", "t", "e", "n", "t", "/", "b", "l", "o", "g", "/", "2", "0", "2", "4", "-", "1", "-", "1", "5", "-", "e", ".", "m", "d">>,
     <<"c", "o", "n", "t", "e", "n", "t", "/", "b", "l", "o", "g", "/", "2", "0", "2", "4", "-", "0", "1", "-", "1", "5", "-", ".", "m", "d">>,
     <<"c", "o", "n", "t", "e", "n", "t", "/", "b", "l", "o", "g", "/", "a", "b", "c", "d", "-", "e", "f", "-", "g", "h", "-", "i", ".", "m", "d">>,
     <<"c", "o", "n", "t", "e", "n", "t", "/", "b", "l", "o", "g", "/", "g", ".", "h", "t", "m", "l">>}

TaskDates == {[year |-> 2025, month |-> 12, day |-> 12],
              [year |-> 2024, month |-> 1, day |-> 5]}

TaskPatterns ==
    {None, Some(<<"{", "d", "a", "t", "e", "}", "/", "{", "s", "t", "e", "m", "}">>),
     Some(<<"{", "y", "e", "a", "r", "}", "/", "{", "m", "o", "n", "t", "h", "}", "/", "{", "d", "a", "y", "}", "/", "{", "s", "t", "e", "m", "}", "-", "{", "s", "l", "u", "g", "}">>)}

TaskNamings == {None, Some(DateNaming), Some(<<"d", "e", "f", "a", "u", "l", "t">>)}

\* config.content: no type declared, or blog declared
TaskContents ==
    {EmptyMap}
    \cup {Blog :> [url_pattern |-> u, output_naming |-> o, rss_include |-> None] :
            u \in TaskPatterns, o \in TaskNamings}

NoTask == [at |-> "idle"]
NoWatch == [at |-> "idle"]
NoTracing == [entry |-> "build", spans |-> <<>>]

\* no static directory, no output: the state of a file system no step touches
IdleFileSystem ==
    /\ staticExists = FALSE
    /\ src = EmptyMap
    /\ out = EmptyMap
    /\ root = EmptyMap
    /\ rootStatic = EmptyMap
    /\ now = 0
    /\ platform = "linux"
    /\ digest = EmptyMap
    /\ manifest = EmptyMap
    /\ removedCount = 0
    /\ lastOp = "init"
    /\ streak = 0
    /\ lastResult = "ok"
    /\ errorPath = <<>>
    /\ edits = 0

InitPaths ==
    /\ \E f \in TaskFiles, d \in TaskDates, c \in TaskContents, b \in BOOLEAN :
          task = [at |-> "start", file |-> f, date |-> d, content |-> c,
                  clean_urls |-> b, content_type |-> <<>>, pattern |-> <<>>,
                  filename |-> <<>>, resolved |-> <<>>, output_path |-> <<>>]
    /\ staticExists = FALSE
    /\ src = EmptyMap
    /\ out = EmptyMap
    /\ root = EmptyMap
    /\ rootStatic = EmptyMap
    /\ now = 0
    /\ platform = "linux"
    /\ digest = EmptyMap
    /\ manifest = EmptyMap
    /\ removedCount = 0
    /\ lastOp = "init"
    /\ streak = 0
    /\ lastResult = "ok"
    /\ errorPath = <<>>
    /\ edits = 0
    /\ NoBuild
    /\ watch = NoWatch
    /\ tracing = NoTracing

\* let content_type = get_content_type(&file, &config.site.content_dir)
TaskContentType ==
    /\ task.at = "start"
    /\ task' = [task EXCEPT !.at = "typed",
                            !.content_type = get_content_type(task.file, ContentDir)]

\* let pattern = config.content.get(&content_type)...unwrap_or("{stem}")
TaskPattern ==
    /\ task.at = "typed"
    /\ task' = [task EXCEPT !.at = "patterned",
                            !.pattern = url_pattern_for(task.content, task.content_type)]

\* let filename = file.file_name()...; let resolved = resolve_url_pattern(..)
TaskResolve ==
    /\ task.at = "patterned"
    /\ task' = [task EXCEPT !.at = "resolved",
                            !.filename = FileNameOf(task.file),
                            !.resolved = resolve_url_pattern(task.pattern,
                                            FileNameOf(task.file), task.date)]

\* let output_path = build_output_path(..)
TaskOutputPath ==
    /\ task.at = "resolved"
    /\ task' = [task EXCEPT !.at = "done",
                            !.output_path = build_output_path(task.content_type,
                                               task.resolved, OutputDir,
                                               task.clean_urls)]

NextPaths ==
    \/ TaskContentType /\ UNCHANGED <<fsVars, buildVars, watch, tracing>>
    \/ TaskPattern /\ UNCHANGED <<fsVars, buildVars, watch, tracing>>
    \/ TaskResolve /\ UNCHANGED <<fsVars, buildVars, watch, tracing>>
    \/ TaskOutputPath /\ UNCHANGED <<fsVars, buildVars, watch, tracing>>

SpecPaths == InitPaths /\ [][NextPaths]_vars

----------------------------------------------------------------------------
(* watch.rs: the watch loop *)

\* one tick of the time since last_build, and Duration::from_millis(500)
TickMs == 250
DebounceMs == 500

\* the loop after build_fresh returned: a watcher that gives up on an error
after_build_stop_on_error(result, initial) ==
    IF result = "err" THEN "stopped"
    ELSE IF initial THEN "spawn" ELSE "recv"

\* if let Err(e) = build_fresh(..) { error!(..) }: the result is logged and
\* the function goes on, to the channel after the initial build and to the
\* next recv after a triggered one
after_build(result, initial) ==
    IF initial THEN "spawn" ELSE "recv"

\* last_build.elapsed() < debounce_duration
debounced(elapsed) == elapsed * TickMs < DebounceMs

InitWatch ==
    /\ watch = [at |-> "load", initial |-> TRUE, opened |-> FALSE,
                closed |-> FALSE, queue |-> <<>>, emitted |-> 0, elapsed |-> 0,
                started |-> 0, finished |-> 0, failed |-> 0,
                skipped |-> 0, covered |-> 0]
    /\ IdleFileSystem
    /\ NoBuild
    /\ task = NoTask
    /\ tracing = NoTracing

\* let config = Config::load_from_file(config_file)?
WatchLoadConfig ==
    /\ watch.at = "load"
    /\ \/ watch' = [watch EXCEPT !.at = "initial"]
       \/ watch' = [watch EXCEPT !.at = "returned_err"]

\* build_fresh(..) is called: the initial build
WatchInitialBuild ==
    /\ watch.at = "initial"
    /\ watch' = [watch EXCEPT !.at = "build", !.started = @ + 1]

\* build_fresh(..) returns Ok or Err
WatchBuildEnd ==
    /\ watch.at = "build"
    /\ \E result \in {"ok", "err"} :
          watch' = [watch EXCEPT !.at = after_build(result, watch.initial),
                                 !.initial = FALSE,
                                 !.finished = @ + 1,
                                 !.failed = IF result = "err" THEN @ + 1 ELSE @]

\* channel(); thread::spawn(observe); let mut last_build = Instant::now()
WatchSpawn ==
    /\ watch.at = "spawn"
    /\ watch' = [watch EXCEPT !.at = "recv", !.opened = TRUE,
                              !.elapsed = 0]

\* the observer thread sends an event for a change of a watched path
WatchEmit ==
    /\ watch.opened
    /\ ~watch.closed
    /\ watch.emitted < MaxEvents
    /\ watch' = [watch EXCEPT !.emitted = @ + 1,
                              !.queue = Append(@, watch.emitted + 1)]

\* the observer thread ends and drops the sender
WatchClose ==
    /\ watch.opened
    /\ ~watch.closed
    /\ watch' = [watch EXCEPT !.closed = TRUE]

\* time passes: last_build.elapsed() grows; past MaxElapsed ticks it is not
\* counted further, the debounce being over
WatchTick ==
    /\ watch.opened
    /\ watch.at # "stopped"
    /\ watch.elapsed < MaxElapsed
    /\ watch' = [watch EXCEPT !.elapsed = @ + 1]

\* receiver.recv() returns Ok(events): the debounce check, then the rebuild
WatchRecv ==
    /\ watch.at = "recv"
    /\ watch.queue # <<>>
    /\ IF debounced(watch.elapsed)
       THEN watch' = [watch EXCEPT !.queue = Tail(@), !.skipped = @ + 1]
       ELSE watch' = [watch EXCEPT !.queue = Tail(@),
                                   !.elapsed = 0,
                                   !.at = "build",
                                   !.started = @ + 1,
                                   !.covered = watch.emitted]

\* receiver.recv() returns Err: every sender is gone and the channel is empty
WatchRecvErr ==
    /\ watch.at = "recv"
    /\ watch.queue = <<>>
    /\ watch.closed
    /\ watch' = [watch EXCEPT !.at = "stopped"]

NextWatch ==
    \/ WatchLoadConfig /\ UNCHANGED <<fsVars, buildVars, task, tracing>>
    \/ WatchInitialBuild /\ UNCHANGED <<fsVars, buildVars, task, tracing>>
    \/ WatchBuildEnd /\ UNCHANGED <<fsVars, buildVars, task, tracing>>
    \/ WatchSpawn /\ UNCHANGED <<fsVars, buildVars, task, tracing>>
    \/ WatchEmit /\ UNCHANGED <<fsVars, buildVars, task, tracing>>
    \/ WatchClose /\ UNCHANGED <<fsVars, buildVars, task, tracing>>
    \/ WatchTick /\ UNCHANGED <<fsVars, buildVars, task, tracing>>
    \/ WatchRecv /\ UNCHANGED <<fsVars, buildVars, task, tracing>>
    \/ WatchRecvErr /\ UNCHANGED <<fsVars, buildVars, task, tracing>>

SpecWatch == InitWatch /\ [][NextWatch]_vars

\* the loop, the running build and the clock do not stop while they can go on;
\* the observer is not obliged to send or to end
SpecWatchFair ==
    /\ SpecWatch
    /\ WF_vars(WatchInitialBuild /\ UNCHANGED <<fsVars, buildVars, task, tracing>>)
    /\ WF_vars(WatchBuildEnd /\ UNCHANGED <<fsVars, buildVars, task, tracing>>)
    /\ WF_vars(WatchSpawn /\ UNCHANGED <<fsVars, buildVars, task, tracing>>)
    /\ WF_vars(WatchRecv /\ UNCHANGED <<fsVars, buildVars, task, tracing>>)
    /\ WF_vars(WatchRecvErr /\ UNCHANGED <<fsVars, buildVars, task, tracing>>)
    /\ WF_vars(WatchTick /\ UNCHANGED <<fsVars, buildVars, task, tracing>>)

----------------------------------------------------------------------------
(* Asset hashing under changes of the static source *)

InitHashing ==
    /\ staticExists = TRUE
    /\ src \in {EmptyMap, InitialTree}
    /\ out = EmptyMap
    /\ root = EmptyMap
    /\ rootStatic = EmptyMap
    /\ now = 0
    /\ platform = "linux"
    /\ digest = EmptyMap
    /\ manifest = EmptyMap
    /\ removedCount = 0
    /\ lastOp = "init"
    /\ streak = 0
    /\ lastResult = "ok"
    /\ errorPath = <<>>
    /\ edits = 0
    /\ NoBuild
    /\ task = NoTask
    /\ watch = NoWatch
    /\ tracing = NoTracing

NextHashing ==
    \/ EnvWrite(AssetPaths, ByteContents) /\ UNCHANGED <<buildVars, task, watch, tracing>>
    \/ EnvRemove /\ UNCHANGED <<buildVars, task, watch, tracing>>
    \/ EnvRename(AssetPaths) /\ UNCHANGED <<buildVars, task, watch, tracing>>
    \/ EnvRemoveStaticDir /\ UNCHANGED <<buildVars, task, watch, tracing>>
    \/ HashStaticAssets /\ UNCHANGED <<buildVars, task, watch, tracing>>
    \/ CopyStaticFiles /\ UNCHANGED <<buildVars, task, watch, tracing>>

SpecHashing == InitHashing /\ [][NextHashing]_vars

----------------------------------------------------------------------------
(* Static sync under changes of the static source *)

InitSync ==
    /\ staticExists = TRUE
    /\ src = EmptyMap
    /\ out = EmptyMap
    /\ root = EmptyMap
    /\ rootStatic \in RootStaticConfigs
    /\ now = 0
    /\ platform \in Platforms
    /\ digest = EmptyMap
    /\ manifest = EmptyMap
    /\ removedCount = 0
    /\ lastOp = "init"
    /\ streak = 0
    /\ lastResult = "ok"
    /\ errorPath = <<>>
    /\ edits = 0
    /\ NoBuild
    /\ task = NoTask
    /\ watch = NoWatch
    /\ tracing = NoTracing

NextSync ==
    \/ EnvWrite(SyncPaths, Contents) /\ UNCHANGED <<buildVars, task, watch, tracing>>
    \/ EnvRemove /\ UNCHANGED <<buildVars, task, watch, tracing>>
    \/ EnvRename(SyncPaths) /\ UNCHANGED <<buildVars, task, watch, tracing>>
    \/ EnvRemoveStaticDir /\ UNCHANGED <<buildVars, task, watch, tracing>>
    \/ Tick /\ UNCHANGED <<buildVars, task, watch, tracing>>
    \/ CopyStaticFiles /\ UNCHANGED <<buildVars, task, watch, tracing>>

SpecSync == InitSync /\ [][NextSync]_vars

----------------------------------------------------------------------------
(* build.rs: one build *)

Docs == <<"d", "o", "c", "s">>
Domain == <<"x", ".", "i", "o">>
RedirectTo == <<"/", "n", "e", "w", "/">>

\* a [redirects] table with a source without extension and one with a
\* trailing slash and doubled leading slashes
RedirectsOfDirectories ==
    (<<"/", "o", "l", "d">> :> RedirectTo)
    @@ (<<"/", "/", "n", "/">> :> RedirectTo)

\* a [redirects] table with a source ending in .html and the empty source
RedirectsOfFiles ==
    (<<"/", "o", ".", "h", "t", "m", "l">> :> RedirectTo)
    @@ (<<>> :> RedirectTo)

PostHtml == <<"p", "o", "s", "t", ".", "h", "t", "m", "l">>
DocHtml == <<"d", "o", "c", ".", "h", "t", "m", "l">>
DefaultHtml == <<"d", "e", "f", "a", "u", "l", "t", ".", "h", "t", "m", "l">>
CustomHtml == <<"c", "u", "s", "t", "o", "m", ".", "h", "t", "m", "l">>

\* [content.blog] with the defaults, [content.docs] with rss_include = false
DeclaredContent ==
    (Blog :> [url_pattern |-> None, output_naming |-> None, rss_include |-> None,
              content_template |-> PostHtml])
    @@ (Docs :> [url_pattern |-> None, output_naming |-> None,
                 rss_include |-> Some(FALSE), content_template |-> DocHtml])

\* the configurations the model draws from: asset hashing on or off, clean
\* URLs on or off, sitemap and feed on or off, and the optional sections
\* (manifest export, content types, redirects) all configured or none, with
\* one redirects table for the sites with a sitemap and the other for those
\* without
Configs ==
    {[asset_hashing_enabled |-> h, asset_manifest_path |-> x,
      sitemap_enabled |-> s, rss_enabled |-> s, clean_urls |-> c,
      domain |-> Domain, content_dir |-> ContentDir, output_dir |-> OutputDir,
      content |-> IF x THEN DeclaredContent ELSE EmptyMap,
      redirects |-> IF ~x THEN EmptyMap
                    ELSE IF s THEN RedirectsOfDirectories
                    ELSE RedirectsOfFiles] :
        h, x, s, c \in BOOLEAN}

\* the content files a site can hold, in the order find_markdown_files walks
\* them, each with the date of its sidecar metadata
ContentUniverse ==
    <<[path |-> <<"c", "o", "n", "t", "e", "n", "t", "/", "b", "l", "o", "g", "/", "2", "0", "2", "4", "-", "0", "1", "-", "1", "5", "-", "a", ".", "m", "d">>,
       date |-> [year |-> 2024, month |-> 1, day |-> 5],
       template |-> None],
      [path |-> <<"c", "o", "n", "t", "e", "n", "t", "/", "b", "l", "o", "g", "/", "a", ".", "m", "d">>,
       date |-> [year |-> 2025, month |-> 12, day |-> 12],
       template |-> Some(CustomHtml)],
      [path |-> <<"c", "o", "n", "t", "e", "n", "t", "/", "d", "o", "c", "s", "/", "b", ".", "m", "d">>,
       date |-> [year |-> 2025, month |-> 12, day |-> 12],
       template |-> None],
      [path |-> <<"c", "o", "n", "t", "e", "n", "t", "/", "c", ".", "m", "d">>,
       date |-> [year |-> 2024, month |-> 1, day |-> 5],
       template |-> Some(CustomHtml)]>>

ContentFile(i) == ContentUniverse[i].path

\* load_content(&file)?.meta: the fields of the file's sidecar the build uses
MetaOf(file) ==
    LET i == CHOOSE k \in DOMAIN ContentUniverse : ContentUniverse[k].path = file
    IN ContentUniverse[i]

MetaDateOf(file) == MetaOf(file).date

\* the members of a set of numbers, ascending
RECURSIVE Ascending(_)
Ascending(set) ==
    IF set = {} THEN <<>>
    ELSE LET least == CHOOSE x \in set : \A y \in set : x <= y
         IN <<least>> \o Ascending(set \ {least})

\* the errors a per-file task can return: load_metadata (read, parse),
\* the read of the body, convert_content_with_highlighting (markdown, syntax)
ErrorKinds ==
    {"MetaIo", "TomlParse", "BodyIo", "MarkdownParsingFailed", "SyntaxHighlighting"}

\* the stages with the static sync moved in front of the asset hashing
BuildStages_sync_first(cfg) ==
    <<"config", "sync">>
    \o (IF cfg.asset_hashing_enabled THEN <<"hash">> ELSE <<>>)
    \o (IF cfg.asset_hashing_enabled /\ cfg.asset_manifest_path
        THEN <<"export">> ELSE <<>>)
    \o <<"env", "discover", "transform", "pages", "indexes", "site_index">>
    \o (IF cfg.sitemap_enabled THEN <<"sitemap">> ELSE <<>>)
    \o (IF cfg.rss_enabled THEN <<"feed">> ELSE <<>>)
    \o (IF DOMAIN cfg.redirects # {} THEN <<"redirects">> ELSE <<>>)
    \o <<"done">>

\* build() then run_build(): the stages of a build, in the order of the calls
BuildStages(cfg) ==
    <<"config">>
    \o (IF cfg.asset_hashing_enabled THEN <<"hash">> ELSE <<>>)
    \o (IF cfg.asset_hashing_enabled /\ cfg.asset_manifest_path
        THEN <<"export">> ELSE <<>>)
    \o <<"env", "sync", "discover", "transform", "pages", "indexes",
         "site_index">>
    \o (IF cfg.sitemap_enabled THEN <<"sitemap">> ELSE <<>>)
    \o (IF cfg.rss_enabled THEN <<"feed">> ELSE <<>>)
    \o (IF DOMAIN cfg.redirects # {} THEN <<"redirects">> ELSE <<>>)
    \o <<"done">>

\* build_with_spans() then run_build_with_spans() without the feed
BuildStagesWithSpans_without_feed(cfg) ==
    <<"config">>
    \o (IF cfg.asset_hashing_enabled THEN <<"hash">> ELSE <<>>)
    \o (IF cfg.asset_hashing_enabled /\ cfg.asset_manifest_path
        THEN <<"export">> ELSE <<>>)
    \o <<"env", "sync", "discover", "transform", "pages", "indexes",
         "site_index">>
    \o (IF cfg.sitemap_enabled THEN <<"sitemap">> ELSE <<>>)
    \o (IF DOMAIN cfg.redirects # {} THEN <<"redirects">> ELSE <<>>)
    \o <<"done">>

\* build_with_spans() then run_build_with_spans(): the stages in the order of
\* the calls
BuildStagesWithSpans(cfg) ==
    <<"config">>
    \o (IF cfg.asset_hashing_enabled THEN <<"hash">> ELSE <<>>)
    \o (IF cfg.asset_hashing_enabled /\ cfg.asset_manifest_path
        THEN <<"export">> ELSE <<>>)
    \o <<"env">>
    \o <<"sync">>
    \o <<"discover">>
    \o <<"transform">>
    \o <<"pages">>
    \o <<"indexes">>
    \o <<"site_index">>
    \o (IF cfg.sitemap_enabled THEN <<"sitemap">> ELSE <<>>)
    \o (IF cfg.rss_enabled THEN <<"feed">> ELSE <<>>)
    \o (IF DOMAIN cfg.redirects # {} THEN <<"redirects">> ELSE <<>>)
    \o <<"done">>

\* the spans run_build_with_spans enters, by the stage that runs inside them
StageSpan ==
    [stage \in {"sync", "discover", "transform", "pages", "indexes",
                "site_index", "sitemap", "feed", "redirects"} |->
        CASE stage = "sync" -> "copy_static_files"
          [] stage = "discover" -> "find_markdown_files"
          [] stage = "transform" -> "load_content"
          [] stage = "pages" -> "render_pages"
          [] stage = "indexes" -> "render_indexes"
          [] stage = "site_index" -> "render_site_index"
          [] stage = "sitemap" -> "generate_sitemap"
          [] stage = "feed" -> "generate_rss"
          [] stage = "redirects" -> "generate_redirects"]

\* the entry points: build and build_fresh call run_build, build_with_spans
\* calls run_build_with_spans
EntryPoints == {"build", "build_with_spans"}

EntryStages(cfg) ==
    IF tracing.entry = "build_with_spans"
    THEN BuildStagesWithSpans(cfg)
    ELSE BuildStages(cfg)

StageAfter(cfg, stage) ==
    LET stages == EntryStages(cfg)
        i == CHOOSE k \in 1..Len(stages) : stages[k] = stage
    IN stages[i + 1]

\* a stage returned Ok: the build goes on with the next stage
Advance ==
    /\ stageLog' = Append(stageLog, pc)
    /\ pc' = StageAfter(config, pc)
    /\ buildError' = buildError

\* an error that is recorded but does not end the build
Fail_ignored(error) ==
    /\ pc' = StageAfter(config, pc)
    /\ buildError' = error
    /\ stageLog' = stageLog

\* a stage returned Err: the ? operator returns it from the build
Fail(error) ==
    /\ pc' = "failed"
    /\ buildError' = error
    /\ stageLog' = stageLog

\* a failure that leaves no error behind
StageError_swallowed(stage) == [some |-> FALSE, stage |-> stage]

\* the RunError a stage returns
StageError(stage) == [some |-> TRUE, stage |-> stage]

\* Config::load_from_file(config_file)?
LoadConfig ==
    /\ pc = "config"
    /\ \/ Advance
       \/ Fail(StageError("config"))
    /\ UNCHANGED <<fsVars, config, env, files, taskState, completed,
                   savedError, loaded, written>>

\* hash_static_assets(...)? ; an I/O error is taken at its first call
HashStage ==
    /\ pc = "hash"
    /\ \/ /\ HashStaticAssets
          /\ Advance
       \/ /\ Fail(StageError("hash"))
          /\ UNCHANGED fsVars
    /\ UNCHANGED <<config, env, files, taskState, completed, savedError,
                   loaded, written>>

\* export_manifest_to_json(manifest, path)?
ExportStage ==
    /\ pc = "export"
    /\ \/ Advance
       \/ Fail(StageError("export"))
    /\ UNCHANGED <<fsVars, config, env, files, taskState, completed,
                   savedError, loaded, written>>

\* an environment that never receives the manifest
create_environment_without_manifest == NoManifest

\* create_environment_with_manifest(template_dir, manifest.as_ref()): the
\* manifest of this build's hashing run, if hashing is enabled, becomes the
\* global _asset_manifest of the environment
create_environment_with_manifest ==
    IF config.asset_hashing_enabled
    THEN [some |-> TRUE, manifest |-> manifest]
    ELSE NoManifest

EnvStage ==
    /\ pc = "env"
    /\ env' = create_environment_with_manifest
    /\ Advance
    /\ UNCHANGED <<fsVars, config, files, taskState, completed, savedError,
                   loaded, written>>

\* copy_static_files(config)?
SyncStage ==
    /\ pc = "sync"
    /\ \/ /\ CopyStaticFiles
          /\ IF lastResult' = "ok" THEN Advance ELSE Fail(StageError("sync"))
       \/ /\ Fail(StageError("sync"))
          /\ UNCHANGED fsVars
    /\ UNCHANGED <<config, env, files, taskState, completed, savedError,
                   loaded, written>>

\* find_markdown_files(content_dir): the files in walk order
DiscoverStage ==
    /\ pc = "discover"
    /\ \E present \in SUBSET DOMAIN ContentUniverse :
          /\ Cardinality(present) <= MaxFiles
          /\ files' = [i \in 1..Cardinality(present) |->
                          ContentFile(Ascending(present)[i])]
          /\ taskState' = [i \in 1..Cardinality(present) |-> "pending"]
    /\ Advance
    /\ UNCHANGED <<fsVars, config, env, completed, savedError, loaded, written>>

----------------------------------------------------------------------------
(* The parallel transform: files.into_par_iter().map(..).collect()? *)

Running == {i \in DOMAIN taskState : taskState[i] = "running"}

\* a worker of the pool takes the task of the i-th file
StartTask(i) ==
    /\ pc = "transform"
    /\ taskState[i] = "pending"
    /\ Cardinality(Running) < NumWorkers
    /\ taskState' = [taskState EXCEPT ![i] = "running"]
    /\ UNCHANGED <<fsVars, config, pc, stageLog, env, files, completed,
                   savedError, loaded, written, buildError>>

\* once a task has failed the collect stops taking new items
SkipTask(i) ==
    /\ pc = "transform"
    /\ taskState[i] = "pending"
    /\ savedError.some
    /\ taskState' = [taskState EXCEPT ![i] = "skipped"]
    /\ UNCHANGED <<fsVars, config, pc, stageLog, env, files, completed,
                   savedError, loaded, written, buildError>>

\* an error slot that keeps the last error stored in it
save_error_last(slot, error) == error

\* the error slot of the collect keeps the first error stored in it
save_error(slot, error) == IF slot.some THEN slot ELSE error

\* the closure returns Ok(LoadedContent) or the error of its first failing call
FinishTask(i) ==
    /\ pc = "transform"
    /\ taskState[i] = "running"
    /\ \E outcome \in {"ok"} \cup ErrorKinds :
          /\ taskState' = [taskState EXCEPT ![i] = outcome]
          /\ savedError' =
                IF outcome = "ok" THEN savedError
                ELSE save_error(savedError,
                                [some |-> TRUE, path |-> files[i], kind |-> outcome])
    /\ completed' = Append(completed, i)
    /\ UNCHANGED <<fsVars, config, pc, stageLog, env, files, loaded, written,
                   buildError>>

LoadedContentOf(i) ==
    LET file == files[i]
        content_type == get_content_type(file, config.content_dir)
        date == MetaDateOf(file)
        pattern == url_pattern_for(config.content, content_type)
        resolved == resolve_url_pattern(pattern, FileNameOf(file), date)
    IN [path |-> file,
        date |-> date,
        template |-> MetaOf(file).template,
        content_type |-> content_type,
        output_path |-> build_output_path(content_type, resolved,
                                          config.output_dir, config.clean_urls)]

\* the items in the order in which the tasks finished
par_collect_completion_order(done) ==
    [k \in 1..Len(done) |-> LoadedContentOf(done[k])]

\* the Vec collected from the results: the items in the order of the files
par_collect(done) ==
    LET order == SortSeq(done, LAMBDA a, b : a < b)
    IN [k \in 1..Len(order) |-> LoadedContentOf(order[k])]

\* a collect that drops the failed items and returns the others
collect_result_partial(slot, done) ==
    [ok |-> TRUE, error |-> NoError,
     value |-> [some |-> TRUE,
                items |-> par_collect(SelectSeq(done,
                              LAMBDA i : taskState[i] = "ok"))]]

\* collect::<Result<Vec<_>, _>>()? : the saved error if there is one, the
\* collection otherwise
collect_result(slot, done) ==
    IF slot.some
    THEN [ok |-> FALSE, error |-> slot, value |-> NoLoaded]
    ELSE [ok |-> TRUE, error |-> NoError,
          value |-> [some |-> TRUE, items |-> par_collect(done)]]

CollectStage ==
    /\ pc = "transform"
    /\ \A i \in DOMAIN taskState : taskState[i] \notin {"pending", "running"}
    /\ \E r \in {collect_result(savedError, completed)} :
          /\ loaded' = r.value
          /\ IF r.ok THEN Advance ELSE Fail(r.error)
    /\ UNCHANGED <<fsVars, config, env, files, taskState, completed,
                   savedError, written>>

----------------------------------------------------------------------------
(* Rendering and writing *)

----------------------------------------------------------------------------
(* sitemap.rs, rss.rs, template.rs, redirect.rs: what the output stages write *)

SitemapXml == <<"s", "i", "t", "e", "m", "a", "p", ".", "x", "m", "l">>
FeedXml == <<"f", "e", "e", "d", ".", "x", "m", "l">>
SlashIndexHtml == <<Slash>> \o IndexHtml

\* format!("https://{}", config.site.domain)
BaseUrl(cfg) == <<"h", "t", "t", "p", "s", ":", "/", "/">> \o cfg.domain

\* the components of a path, joined again
RECURSIVE JoinComponents(_)
JoinComponents(cs) ==
    IF cs = <<>> THEN <<>>
    ELSE IF Len(cs) = 1 THEN cs[1]
    ELSE cs[1] \o <<Slash>> \o JoinComponents(Tail(cs))

\* content.output_path.strip_prefix(&config.site.output_dir)
\*     .unwrap_or(&content.output_path)
RelativeOutputPath(cfg, output_path) ==
    LET stripped == strip_prefix(output_path, cfg.output_dir)
    IN IF stripped.ok THEN JoinComponents(stripped.rest) ELSE output_path

\* path.to_string_lossy().replace('\\', "/")
path_to_url(path) ==
    [i \in 1..Len(path) |-> IF path[i] = "\\" THEN Slash ELSE path[i]]

\* raw_path.strip_suffix("/index.html")
\*     .or_else(|| raw_path.strip_suffix("\\index.html"))
\*     .map(|s| format!("{}/", s)).unwrap_or(raw_path), with clean URLs only
CleanUrlOf(cfg, raw_path) ==
    LET cut == SubSeq(raw_path, 1, Len(raw_path) - Len(SlashIndexHtml))
    IN IF cfg.clean_urls /\ EndsWith(raw_path, SlashIndexHtml)
       THEN cut \o <<Slash>>
       ELSE IF cfg.clean_urls /\ EndsWith(raw_path, <<"\\">> \o IndexHtml)
       THEN cut \o <<Slash>>
       ELSE raw_path

\* the path of an item below the site root, as sitemap and feed link to it
UrlPathOf(cfg, output_path) ==
    CleanUrlOf(cfg, path_to_url(RelativeOutputPath(cfg, output_path)))

\* format_url_entry(base_url, path, lastmod)
format_url_entry(base_url, path, lastmod) ==
    [loc |-> base_url \o path,
     lastmod |-> IF lastmod = None THEN None ELSE Some(FormatDate(lastmod[1]))]

\* the orders in which a HashMap can yield its keys
KeyOrders(map) ==
    {order \in [1..Cardinality(DOMAIN map) -> DOMAIN map] :
        \A i, j \in DOMAIN order : order[i] = order[j] => i = j}

\* a sitemap whose index entries are listed only beside content
generate_sitemap_types_with_content(cfg, loaded_contents, keys) ==
    <<format_url_entry(BaseUrl(cfg), <<Slash>>, None)>>
    \o [k \in 1..(IF loaded_contents = <<>> THEN 0 ELSE Len(keys)) |->
          format_url_entry(BaseUrl(cfg), <<Slash>> \o keys[k] \o <<Slash>>, None)]
    \o [k \in 1..Len(loaded_contents) |->
          format_url_entry(BaseUrl(cfg),
              <<Slash>> \o UrlPathOf(cfg, loaded_contents[k].output_path),
              Some(loaded_contents[k].date))]

\* generate_sitemap(config, loaded_contents): the url entries of sitemap.xml,
\* keys being config.content.keys() in the order the map yields them
generate_sitemap(cfg, loaded_contents, keys) ==
    <<format_url_entry(BaseUrl(cfg), <<Slash>>, None)>>
    \o [k \in 1..Len(keys) |->
          format_url_entry(BaseUrl(cfg), <<Slash>> \o keys[k] \o <<Slash>>, None)]
    \o [k \in 1..Len(loaded_contents) |->
          format_url_entry(BaseUrl(cfg),
              <<Slash>> \o UrlPathOf(cfg, loaded_contents[k].output_path),
              Some(loaded_contents[k].date))]

\* OffsetDateTime::cmp on the dates of the model: by year, month, day
DateKey(date) == date.year * 10000 + date.month * 100 + date.day

\* the place of x in a list already sorted by date descending: after every
\* item that is not older
RECURSIVE InsertByDate(_, _)
InsertByDate(sorted, x) ==
    IF sorted = <<>> THEN <<x>>
    ELSE IF DateKey(Head(sorted).date) >= DateKey(x.date)
         THEN <<Head(sorted)>> \o InsertByDate(Tail(sorted), x)
         ELSE <<x>> \o sorted

\* items.sort_by(|a, b| b.date.cmp(&a.date)): stable, newest first
RECURSIVE SortByDateDesc(_)
SortByDateDesc(items) ==
    IF items = <<>> THEN <<>>
    ELSE InsertByDate(SortByDateDesc(SubSeq(items, 1, Len(items) - 1)),
                      items[Len(items)])

\* a feed that takes only the declared content types
should_include_in_rss_declared_only(cfg, content_type) ==
    IF content_type \in DOMAIN cfg.content
    THEN IF cfg.content[content_type].rss_include = None
         THEN TRUE
         ELSE cfg.content[content_type].rss_include[1]
    ELSE FALSE

\* config.content.get(content_type)
\*     .map(|ct| ct.rss_include.unwrap_or(true)).unwrap_or(true)
should_include_in_rss(cfg, content_type) ==
    IF content_type \in DOMAIN cfg.content
    THEN IF cfg.content[content_type].rss_include = None
         THEN TRUE
         ELSE cfg.content[content_type].rss_include[1]
    ELSE TRUE

\* format_item(config, content, base_url): the link and the date of an item
format_item(cfg, content, base_url) ==
    [link |-> base_url \o <<Slash>> \o UrlPathOf(cfg, content.output_path),
     date |-> content.date,
     source |-> content.path]

\* generate_rss(config, loaded_contents): the items of feed.xml
generate_rss(cfg, loaded_contents) ==
    LET items == SortByDateDesc(SelectSeq(loaded_contents,
                     LAMBDA lc : should_include_in_rss(cfg, lc.content_type)))
    IN [k \in 1..Len(items) |-> format_item(cfg, items[k], BaseUrl(cfg))]

\* build_content_item(lc, config): what a template sees of an item
build_content_item(lc, cfg) ==
    [source |-> lc.path,
     date |-> lc.date,
     content_type |-> lc.content_type,
     filename |-> CleanUrlOf(cfg, RelativeOutputPath(cfg, lc.output_path))]

\* an index that lists its items in the order they were loaded
render_index_unsorted(cfg, items, all_content) ==
    [contents |-> [k \in 1..Len(items) |-> build_content_item(items[k], cfg)],
     all_content |->
        [k \in 1..Len(all_content) |-> build_content_item(all_content[k], cfg)]]

\* render_index_from_loaded(env, config, template, loaded, all_content): the
\* context the index template is rendered with
render_index_from_loaded(cfg, items, all_content) ==
    [contents |-> SortByDateDesc(
        [k \in 1..Len(items) |-> build_content_item(items[k], cfg)]),
     all_content |-> SortByDateDesc(
        [k \in 1..Len(all_content) |-> build_content_item(all_content[k], cfg)])]

\* str::trim_start_matches('/')
RECURSIVE TrimLeadingSlashes(_)
TrimLeadingSlashes(s) ==
    IF s # <<>> /\ Head(s) = Slash THEN TrimLeadingSlashes(Tail(s)) ELSE s

\* PathBuf::from(base).join(path): an absolute path replaces the base
PathBufJoin(base, path) ==
    IF path # <<>> /\ Head(path) = Slash THEN path ELSE JoinPath(base, path)

\* get_redirect_output_path(from_path, output_dir)
get_redirect_output_path(from_path, output_dir) ==
    LET path == TrimLeadingSlashes(from_path)
        file_path == IF EndsWith(from_path, <<Slash>>) THEN path \o IndexHtml
                     ELSE IF EndsWith(from_path, HtmlSuffix) THEN path
                     ELSE path \o SlashIndexHtml
    IN PathBufJoin(output_dir, file_path)

\* get_content_type_template(config, content_type)
get_content_type_template(cfg, content_type) ==
    IF content_type \in DOMAIN cfg.content
    THEN cfg.content[content_type].content_template
    ELSE DefaultHtml

WrittenOfKind(kind) == {k \in 1..Len(written) : written[k].kind = kind}

\* write_output_file(path, body), with the environment that rendered the body
Artifact(kind, id, e, path, body) ==
    [kind |-> kind, id |-> id, env |-> e, path |-> path, body |-> body]

\* for loaded in &loaded_contents: render_html(env, ..)? ; write_output_file(..)?
PageStage ==
    /\ pc = "pages"
    /\ LET k == Cardinality(WrittenOfKind("page")) + 1
       IN IF k > Len(loaded.items)
          THEN Advance /\ written' = written
          ELSE \/ /\ written' = Append(written,
                        Artifact("page", loaded.items[k].path, env,
                                 loaded.items[k].output_path,
                                 [source |-> loaded.items[k].path,
                                  template |-> get_content_type_template(config,
                                                  loaded.items[k].content_type)]))
                  /\ UNCHANGED <<pc, stageLog, buildError>>
               \/ /\ Fail(StageError("pages"))
                  /\ written' = written
    /\ UNCHANGED <<fsVars, config, env, files, taskState, completed,
                   savedError, loaded>>

\* for (content_type, v) in config.content.iter(): render and write its index
IndexStage ==
    /\ pc = "indexes"
    /\ LET todo == DOMAIN config.content
                    \ {written[k].id : k \in WrittenOfKind("type_index")}
       IN IF todo = {}
          THEN Advance /\ written' = written
          ELSE \/ /\ \E content_type \in todo :
                        LET filtered == SelectSeq(loaded.items,
                                LAMBDA lc : lc.content_type = content_type)
                        IN written' = Append(written,
                              Artifact("type_index", content_type, env,
                                  JoinPath(JoinPath(config.output_dir, content_type),
                                           IndexHtml),
                                  render_index_from_loaded(config, filtered,
                                                           loaded.items)))
                  /\ UNCHANGED <<pc, stageLog, buildError>>
               \/ /\ Fail(StageError("indexes"))
                  /\ written' = written
    /\ UNCHANGED <<fsVars, config, env, files, taskState, completed,
                   savedError, loaded>>

\* a stage that writes one file: the site index, sitemap.xml, feed.xml
WriteOne(stage, kind, e, name, body) ==
    /\ pc = stage
    /\ \/ /\ written' = Append(written,
                Artifact(kind, stage, e, JoinPath(config.output_dir, name), body))
          /\ Advance
       \/ /\ Fail(StageError(stage))
          /\ written' = written
    /\ UNCHANGED <<fsVars, config, env, files, taskState, completed,
                   savedError, loaded>>

SiteIndexStage ==
    WriteOne("site_index", "site_index", env, IndexHtml,
             render_index_from_loaded(config, loaded.items, loaded.items))

SitemapStage ==
    \E keys \in KeyOrders(config.content) :
        WriteOne("sitemap", "sitemap", NoManifest, SitemapXml,
                 generate_sitemap(config, loaded.items, keys))

FeedStage ==
    WriteOne("feed", "feed", NoManifest, FeedXml,
             generate_rss(config, loaded.items))

\* for (from_path, to_path) in &config.redirects: write the stub
RedirectStage ==
    /\ pc = "redirects"
    /\ LET todo == DOMAIN config.redirects
                    \ {written[k].id : k \in WrittenOfKind("redirect")}
       IN IF todo = {}
          THEN Advance /\ written' = written
          ELSE \/ /\ \E from_path \in todo :
                        written' = Append(written,
                            Artifact("redirect", from_path, NoManifest,
                                get_redirect_output_path(from_path,
                                                         config.output_dir),
                                [target |-> config.redirects[from_path]]))
                  /\ UNCHANGED <<pc, stageLog, buildError>>
               \/ /\ Fail(StageError("redirects"))
                  /\ written' = written
    /\ UNCHANGED <<fsVars, config, env, files, taskState, completed,
                   savedError, loaded>>

----------------------------------------------------------------------------
(* One build of a site *)

\* output/static as an earlier build left it: a hashed file that is now stale
\* and the mirrored copy of the source file whose own name is hashed
StaleOutput ==
    (<<"b", ".", "0", "0", "0", "0", "0", "0", "0", "1", ".", "j", "s">>
        :> [content |-> <<1>>, mtime |-> 0])
    @@ (PathHashed :> [content |-> <<1>>, mtime |-> 0])

\* the static source with the file that root_static sends to the output root
TreeWithIcon == (PathIco :> [content |-> <<0>>, mtime |-> 0]) @@ InitialTree

\* the static directory and the root_static map of the site: no directory and
\* a declared root file, a directory that lacks the declared root file, a
\* directory that holds it
StaticSetups ==
    {[exists |-> FALSE, tree |-> EmptyMap, root_static |-> NameFavicon :> PathIco],
     [exists |-> TRUE, tree |-> InitialTree, root_static |-> NameFavicon :> PathIco],
     [exists |-> TRUE, tree |-> TreeWithIcon, root_static |-> NameFavicon :> PathIco]}

Init ==
    /\ \E s \in StaticSetups :
          /\ staticExists = s.exists
          /\ src = s.tree
          /\ rootStatic = s.root_static
    /\ out = StaleOutput
    /\ root = EmptyMap
    /\ now = 1
    /\ platform = "linux"
    /\ digest = EmptyMap
    /\ manifest = EmptyMap
    /\ removedCount = 0
    /\ lastOp = "init"
    /\ streak = 0
    /\ lastResult = "ok"
    /\ errorPath = <<>>
    /\ edits = 0
    /\ config \in Configs
    /\ pc = "config"
    /\ stageLog = <<>>
    /\ env = NoManifest
    /\ files = <<>>
    /\ taskState = <<>>
    /\ completed = <<>>
    /\ savedError = NoError
    /\ loaded = NoLoaded
    /\ written = <<>>
    /\ buildError = NoError
    /\ task = NoTask
    /\ watch = NoWatch
    /\ tracing = NoTracing

Next ==
    \/ LoadConfig /\ UNCHANGED <<task, watch, tracing>>
    \/ HashStage /\ UNCHANGED <<task, watch, tracing>>
    \/ ExportStage /\ UNCHANGED <<task, watch, tracing>>
    \/ EnvStage /\ UNCHANGED <<task, watch, tracing>>
    \/ SyncStage /\ UNCHANGED <<task, watch, tracing>>
    \/ DiscoverStage /\ UNCHANGED <<task, watch, tracing>>
    \/ \E i \in DOMAIN taskState : StartTask(i) /\ UNCHANGED <<task, watch, tracing>>
    \/ \E i \in DOMAIN taskState : SkipTask(i) /\ UNCHANGED <<task, watch, tracing>>
    \/ \E i \in DOMAIN taskState : FinishTask(i) /\ UNCHANGED <<task, watch, tracing>>
    \/ CollectStage /\ UNCHANGED <<task, watch, tracing>>
    \/ PageStage /\ UNCHANGED <<task, watch, tracing>>
    \/ IndexStage /\ UNCHANGED <<task, watch, tracing>>
    \/ SiteIndexStage /\ UNCHANGED <<task, watch, tracing>>
    \/ SitemapStage /\ UNCHANGED <<task, watch, tracing>>
    \/ FeedStage /\ UNCHANGED <<task, watch, tracing>>
    \/ RedirectStage /\ UNCHANGED <<task, watch, tracing>>

Spec == Init /\ [][Next]_vars

----------------------------------------------------------------------------
(* One build through either entry point *)

\* tracing::info_span!(..).entered(): run_build_with_spans enters the span of
\* a stage when the stage starts, run_build enters none
EnterSpan ==
    tracing' =
        IF tracing.entry = "build_with_spans" /\ pc' # pc
           /\ pc' \in DOMAIN StageSpan
        THEN [tracing EXCEPT !.spans = Append(@, StageSpan[pc'])]
        ELSE tracing

InitEntry ==
    /\ staticExists = TRUE
    /\ src = TreeWithIcon
    /\ rootStatic = NameFavicon :> PathIco
    /\ out = StaleOutput
    /\ root = EmptyMap
    /\ now = 1
    /\ platform = "linux"
    /\ digest = EmptyMap
    /\ manifest = EmptyMap
    /\ removedCount = 0
    /\ lastOp = "init"
    /\ streak = 0
    /\ lastResult = "ok"
    /\ errorPath = <<>>
    /\ edits = 0
    /\ config \in {cfg \in Configs : cfg.clean_urls}
    /\ pc = "config"
    /\ stageLog = <<>>
    /\ env = NoManifest
    /\ files = <<>>
    /\ taskState = <<>>
    /\ completed = <<>>
    /\ savedError = NoError
    /\ loaded = NoLoaded
    /\ written = <<>>
    /\ buildError = NoError
    /\ task = NoTask
    /\ watch = NoWatch
    /\ \E entry \in EntryPoints : tracing = [entry |-> entry, spans |-> <<>>]

NextEntry ==
    \/ LoadConfig /\ EnterSpan /\ UNCHANGED <<task, watch>>
    \/ HashStage /\ EnterSpan /\ UNCHANGED <<task, watch>>
    \/ ExportStage /\ EnterSpan /\ UNCHANGED <<task, watch>>
    \/ EnvStage /\ EnterSpan /\ UNCHANGED <<task, watch>>
    \/ SyncStage /\ EnterSpan /\ UNCHANGED <<task, watch>>
    \/ DiscoverStage /\ EnterSpan /\ UNCHANGED <<task, watch>>
    \/ \E i \in DOMAIN taskState : StartTask(i) /\ EnterSpan /\ UNCHANGED <<task, watch>>
    \/ \E i \in DOMAIN taskState : SkipTask(i) /\ EnterSpan /\ UNCHANGED <<task, watch>>
    \/ \E i \in DOMAIN taskState : FinishTask(i) /\ EnterSpan /\ UNCHANGED <<task, watch>>
    \/ CollectStage /\ EnterSpan /\ UNCHANGED <<task, watch>>
    \/ PageStage /\ EnterSpan /\ UNCHANGED <<task, watch>>
    \/ IndexStage /\ EnterSpan /\ UNCHANGED <<task, watch>>
    \/ SiteIndexStage /\ EnterSpan /\ UNCHANGED <<task, watch>>
    \/ SitemapStage /\ EnterSpan /\ UNCHANGED <<task, watch>>
    \/ FeedStage /\ EnterSpan /\ UNCHANGED <<task, watch>>
    \/ RedirectStage /\ EnterSpan /\ UNCHANGED <<task, watch>>

SpecEntry == InitEntry /\ [][NextEntry]_vars

----------------------------------------------------------------------------
(* Vocabulary of the properties, stated without the operators of the code *)

HexChars ==
    {"0", "1", "2", "3", "4", "5", "6", "7", "8", "9",
     "a", "b", "c", "d", "e", "f", "A", "B", "C", "D", "E", "F"}

\* the file name has the shape <name>.<8 hex chars>.<css|js>
MatchesHashedPattern(f) ==
    \E e \in {Css, Js} :
        LET n == Len(f)
            k == Len(e)
        IN /\ n >= k + 10
           /\ SubSeq(f, n - k + 1, n) = e
           /\ f[n - k] = "."
           /\ f[n - k - 9] = "."
           /\ \A i \in 1..8 : f[n - k - 9 + i] \in HexChars

LastDot(p) == CHOOSE i \in 0..Len(p) :
    /\ i > 0 => p[i] = "."
    /\ \A j \in (i + 1)..Len(p) : p[j] # "."

\* the relative path <dir>/<name>.<hash>.<ext> for the source <dir>/<name>.<ext>
HashedPathOf(p, h) ==
    SubSeq(p, 1, LastDot(p) - 1) \o <<".">> \o h \o SubSeq(p, LastDot(p), Len(p))

\* the short hash of a content: 8 hex characters of its digest
ShortHash(c) == ToHex8(digest[c])

\* the source files asset hashing is meant to hash
IsAsset(p) ==
    /\ ExtensionOf(p) \in {Css, Js}
    /\ ~MatchesHashedPattern(FileNameOf(p))

HashedFilesIn(tree) ==
    {q \in DOMAIN tree : MatchesHashedPattern(FileNameOf(q))}

\* the files under output/static that the values of a manifest name
ManifestTargets(m) ==
    {SubSeq(m[k], Len(StaticPrefix) + 1, Len(m[k])) : k \in DOMAIN m}

\* the 8 characters before the last dot of a manifest value
HashPartOf(url) == SubSeq(url, LastDot(url) - 8, LastDot(url) - 1)

HashRunDone == lastOp = "hash" /\ lastResult = "ok"

----------------------------------------------------------------------------
(* C1 .. C5: the build *)

StagesDone == {stageLog[k] : k \in 1..Len(stageLog)}

Failed == {i \in DOMAIN taskState : taskState[i] \in ErrorKinds}

TransformReturned == pc \notin {"config", "hash", "export", "env", "sync",
                                "discover", "transform"}

\* C1: when every per-file task succeeded, the collection the parallel
\* transform returns is as long as the list of discovered files and its i-th
\* element was made from the i-th discovered path, whatever the order in
\* which the tasks finished.
C1_ResultOrderIsDiscoveryOrder ==
    ((TransformReturned /\ Failed = {} /\ pc # "failed") \/ loaded.some) =>
        /\ loaded.some
        /\ Len(loaded.items) = Len(files)
        /\ \A i \in 1..Len(files) : loaded.items[i].path = files[i]

\* two files, the second finished first, and the collection was returned
C1_Witness ==
    /\ loaded.some
    /\ Len(files) = 2
    /\ completed = <<2, 1>>
    /\ pc = "pages"

\* C2: once a per-file task has failed, the parallel stage returns an error
\* and no collection; the error is the error of one of the failed tasks; no
\* task is run twice.
C2_FailFastOneError ==
    /\ (TransformReturned /\ Failed # {}) =>
          /\ pc = "failed"
          /\ ~loaded.some
          /\ loaded.items = <<>>
          /\ buildError.some
          /\ \E i \in Failed :
                buildError = [some |-> TRUE, path |-> files[i],
                              kind |-> taskState[i]]
    /\ \A j, k \in 1..Len(completed) : completed[j] = completed[k] => j = k

\* one task succeeded and finished first, the other failed, the stage returned
C2_Witness ==
    /\ pc = "failed"
    /\ Len(files) = 2
    /\ taskState[1] \in ErrorKinds
    /\ taskState[2] = "ok"
    /\ completed = <<2, 1>>

\* C3: whenever a page, a content-type index, the site index, the sitemap,
\* the feed or a redirect stub has been written, the parallel transform has
\* returned the collection with every discovered file transformed; once a
\* task has failed, none of them is written.
C3_NoWriteBeforeTransform ==
    /\ written # <<>> =>
          /\ "transform" \in StagesDone
          /\ loaded.some
          /\ \A i \in DOMAIN taskState : taskState[i] = "ok"
          /\ Len(taskState) = Len(files)
    /\ (savedError.some \/ Failed # {}) => written = <<>>

\* a finished build that wrote a file of each kind
C3_Witness ==
    /\ pc = "done"
    /\ Len(files) >= 1
    /\ {written[k].kind : k \in 1..Len(written)} =
          {"page", "type_index", "site_index", "sitemap", "feed", "redirect"}

RenderKinds == {"page", "type_index", "site_index"}

\* C4: with asset hashing enabled, every page or index was rendered after the
\* hashing stage had returned, with an environment that holds the manifest of
\* that hashing run, which names every .css and .js file of the static
\* directory; with asset hashing disabled, the hashing never runs and the
\* environment of every render holds no manifest.
C4_RendersSeeTheManifest ==
    /\ \A k \in 1..Len(written) :
          written[k].kind \in RenderKinds =>
             IF config.asset_hashing_enabled
             THEN /\ "hash" \in StagesDone
                  /\ written[k].env = [some |-> TRUE, manifest |-> manifest]
                  /\ staticExists =>
                        DOMAIN manifest = {p \in DOMAIN src : IsAsset(p)}
             ELSE written[k].env = NoManifest
    /\ ~config.asset_hashing_enabled =>
          /\ "hash" \notin StagesDone
          /\ pc # "hash"
          /\ manifest = EmptyMap
          /\ digest = EmptyMap
          /\ removedCount = 0

\* a finished build with hashing enabled that removed a stale hashed file,
\* filled the manifest and rendered a page and both kinds of index
C4_Witness ==
    /\ pc = "done"
    /\ config.asset_hashing_enabled
    /\ manifest # EmptyMap
    /\ removedCount > 0
    /\ RenderKinds \subseteq {written[k].kind : k \in 1..Len(written)}

----------------------------------------------------------------------------
(* C6 *)

\* C6 as stated: an asset-hashing run that follows an asset-hashing run, with
\* no change of the static source between them, returns the same manifest and
\* leaves under output/static exactly the hashed files its manifest names.
C6_Original ==
    [][(HashRunDone /\ HashStaticAssets) =>
          /\ manifest' = manifest
          /\ HashedFilesIn(out') = ManifestTargets(manifest')]_vars

\* C6, amended: the same, for a static source directory that exists.
C6_RerunSameManifestNoOrphans ==
    [][(HashRunDone /\ staticExists /\ HashStaticAssets) =>
          /\ manifest' = manifest
          /\ HashedFilesIn(out') = ManifestTargets(manifest')]_vars

\* two runs in a row on an existing tree with assets, the second of which
\* removed the hashed files of the first
C6_Witness ==
    /\ HashRunDone
    /\ streak = 2
    /\ staticExists
    /\ manifest # EmptyMap
    /\ removedCount > 0

----------------------------------------------------------------------------
(* C7 *)

NoOrphanHashedFiles ==
    \A q \in HashedFilesIn(out) :
        \E p \in DOMAIN src :
            /\ IsAsset(p)
            /\ q = HashedPathOf(p, ShortHash(src[p].content))
            /\ out[q].content = src[p].content

\* C7 as stated: after every successful asset-hashing run, whatever happened
\* to the static source before it (its removal included), every file of
\* output/static with a hashed name is the hashed copy of a present asset.
C7_Original == HashRunDone => NoOrphanHashedFiles

\* C7, amended: the same after every successful run that found the static
\* source directory in place.
C7_NoOrphansWhenStaticExists ==
    (HashRunDone /\ staticExists) => NoOrphanHashedFiles

\* a run whose cleanup removed stale hashed files and that hashed an asset
C7_Witness ==
    /\ HashRunDone
    /\ staticExists
    /\ edits >= 2
    /\ removedCount > 0
    /\ HashedFilesIn(out) # {}

----------------------------------------------------------------------------
(* C8 *)

\* C8: after a successful run on an existing static directory the manifest has
\* one entry per css/js source file without a hashed name and no other; the
\* entry maps the relative path to "/static/" + <dir>/<name>.<hash>.<ext>,
\* where a byte-identical copy exists; other files get no entry and no copy.
C8_ManifestExact ==
    (HashRunDone /\ staticExists) =>
        /\ DOMAIN manifest = {p \in DOMAIN src : IsAsset(p)}
        /\ \A p \in DOMAIN manifest :
              LET q == HashedPathOf(p, ShortHash(src[p].content))
              IN /\ manifest[p] = StaticPrefix \o q
                 /\ q \in DOMAIN out
                 /\ out[q].content = src[p].content
        /\ \A p \in DOMAIN src :
              ExtensionOf(p) \notin {Css, Js} =>
                 /\ p \notin DOMAIN manifest
                 /\ \A v \in HashSpace : HashedPathOf(p, ToHex8(v)) \notin DOMAIN out

\* a run over a css asset in a subdirectory, a file of another extension and
\* a file whose name is already hashed
C8_Witness ==
    /\ HashRunDone
    /\ staticExists
    /\ DOMAIN src = {PathCss, PathPng, PathHashed}

----------------------------------------------------------------------------
(* C9 *)

\* C9 as stated: hashed in one run, two files get the same short hash if and
\* only if their bytes are identical.
C9_Original ==
    HashRunDone =>
        \A p, q \in DOMAIN manifest :
            (src[p].content = src[q].content)
                <=> (HashPartOf(manifest[p]) = HashPartOf(manifest[q]))

\* C9, amended: two files with identical bytes get the same short hash
\* whatever their paths (different bytes may collide on the 8 characters).
C9_SameBytesSameHash ==
    HashRunDone =>
        \A p, q \in DOMAIN manifest :
            (src[p].content = src[q].content)
                => (HashPartOf(manifest[p]) = HashPartOf(manifest[q]))

\* two assets at different paths with identical bytes, hashed in one run
C9_Witness ==
    /\ HashRunDone
    /\ {PathCss, PathJs} \subseteq DOMAIN manifest
    /\ src[PathCss].content = src[PathJs].content

----------------------------------------------------------------------------
(* C10 *)

\* p is the file that a value of the root-file map names
IsRootFile(p) == \E k \in DOMAIN rootStatic : ResolveJoined(rootStatic[k]) = p

\* a destination exists whose size equals the source's and whose modification
\* time is not older than the source's (on a platform that reports the times)
DestinationUpToDate(p) ==
    /\ p \in DOMAIN out
    /\ Len(out[p].content) = Len(src[p].content)
    /\ platform # "no_mtime"
    /\ out[p].mtime >= src[p].mtime

\* C10: a static sync leaves the destination of a non-root source file
\* untouched when a destination of equal size and not older exists, and copies
\* the source to its mirrored destination otherwise (always on a cold run).
C10_SyncCopiesUnlessUpToDate ==
    [][CopyStaticFiles =>
          \A p \in DOMAIN src :
              ~IsRootFile(p) =>
                  IF DestinationUpToDate(p)
                  THEN p \in DOMAIN out' /\ out'[p] = out[p]
                  ELSE p \in DOMAIN out' /\ out'[p].content = src[p].content]_vars

\* a sync that left untouched a destination an earlier sync had copied: its
\* bytes differ from the source's, its size is the same and it is not older
C10_Witness ==
    /\ lastOp = "sync"
    /\ \E p \in DOMAIN src :
          /\ ~IsRootFile(p)
          /\ p \in DOMAIN out
          /\ out[p].content # src[p].content

----------------------------------------------------------------------------
(* C11, C12: the routing of the static sync *)

RootTargetsOf(p) == {k \in DOMAIN rootStatic : ResolveJoined(rootStatic[k]) = p}

\* C11: a static sync that succeeds on an existing static directory leaves
\* each file that the root-file map names at the output root under its
\* declared name and does not touch its mirror under output/static; every
\* other file it leaves mirrored under output/static, and the output root
\* gets no file but the declared ones.
C11_Original ==
    [][(staticExists /\ CopyStaticFiles /\ lastResult' = "ok") =>
          /\ \A p \in DOMAIN src :
                IF IsRootFile(p)
                THEN /\ \A k \in RootTargetsOf(p) :
                           /\ k \in DOMAIN root'
                           /\ \/ root'[k].content = src[p].content
                              \/ k \in DOMAIN root /\ root'[k] = root[k]
                     /\ p \in DOMAIN out' <=> p \in DOMAIN out
                     /\ p \in DOMAIN out => out'[p] = out[p]
                ELSE /\ p \in DOMAIN out'
                     /\ \/ out'[p].content = src[p].content
                        \/ p \in DOMAIN out /\ out'[p] = out[p]
          /\ DOMAIN root' \subseteq DOMAIN root \cup DOMAIN rootStatic]_vars

\* C12: whenever the static sync of a build has run with a root-file map that
\* declares a source that does not exist under the static directory, the sync
\* returned an error that names the path of a missing declared source, and
\* the build failed with it.
C12_Original ==
    (lastOp = "sync"
     /\ \E k \in DOMAIN rootStatic : ResolveJoined(rootStatic[k]) \notin DOMAIN src)
    => /\ lastResult = "err"
       /\ \E k \in DOMAIN rootStatic :
             /\ ResolveJoined(rootStatic[k]) \notin DOMAIN src
             /\ errorPath = JoinedSourcePath(rootStatic[k])
       /\ pc = "failed"
       /\ buildError = StageError("sync")

----------------------------------------------------------------------------
(* C13 .. C16: from a content file to its output path *)

TaskAfter(stages) == task.at \in stages

\* C13: the content type is the first segment below the content directory
\* when the file lies in a subdirectory of it, and "page" when the file is
\* not under the content directory or lies directly in it.
C13_Original ==
    TaskAfter({"typed", "patterned", "resolved", "done"}) =>
        LET r == strip_prefix(task.file, ContentDir)
        IN IF r.ok /\ Len(r.rest) >= 2
           THEN task.content_type = r.rest[1]
           ELSE task.content_type = PageLabel

TypeDeclared == task.content_type \in DOMAIN task.content

\* C14: the pattern is the url_pattern of the item's content type if it has
\* one, else "{date}-{stem}" if its output_naming is exactly "date", else
\* "{stem}"; an undeclared content type gets "{stem}".
C14_PatternPrecedence ==
    TaskAfter({"patterned", "resolved", "done"}) =>
        /\ (TypeDeclared /\ task.content[task.content_type].url_pattern # None)
              => task.pattern = task.content[task.content_type].url_pattern[1]
        /\ (/\ TypeDeclared
            /\ task.content[task.content_type].url_pattern = None
            /\ task.content[task.content_type].output_naming = Some(DateNaming))
              => task.pattern = DateStemPattern
        /\ (/\ TypeDeclared
            /\ task.content[task.content_type].url_pattern = None
            /\ task.content[task.content_type].output_naming # Some(DateNaming))
              => task.pattern = StemPattern
        /\ ~TypeDeclared => task.pattern = StemPattern

\* an explicit url_pattern chosen for a type whose legacy naming is "date"
C14_Witness ==
    /\ task.at = "done"
    /\ TypeDeclared
    /\ task.content[task.content_type].url_pattern = Some(<<"{", "d", "a", "t", "e", "}", "/", "{", "s", "t", "e", "m", "}">>)
    /\ task.content[task.content_type].output_naming = Some(DateNaming)
    /\ task.pattern = <<"{", "d", "a", "t", "e", "}", "/", "{", "s", "t", "e", "m", "}">>

\* the stem each file name has by the rule of C15
ExpectedStem(filename) ==
    CASE filename = <<"a", ".", "m", "d">> -> <<"a">>
      [] filename = <<"2", "0", "2", "4", "-", "0", "1", "-", "1", "5", "-", "a", ".", "m", "d">> -> <<"a">>
      [] filename = <<"b", ".", "m", "a", "r", "k", "d", "o", "w", "n">> -> <<"b">>
      [] filename = <<"c", ".", "m", "d">> -> <<"c">>
      [] filename = <<"d", ".", "m", "d">> -> <<"d">>
      [] filename = <<"2", "0", "2", "4", "-", "1", "-", "1", "5", "-", "e", ".", "m", "d">> -> <<"2", "0", "2", "4", "-", "1", "-", "1", "5", "-", "e">>
      [] filename = <<"2", "0", "2", "4", "-", "0", "1", "-", "1", "5", "-", ".", "m", "d">> -> <<"2", "0", "2", "4", "-", "0", "1", "-", "1", "5", "-">>
      [] filename = <<"a", "b", "c", "d", "-", "e", "f", "-", "g", "h", "-", "i", ".", "m", "d">> -> <<"a", "b", "c", "d", "-", "e", "f", "-", "g", "h", "-", "i">>
      [] filename = <<"g", ".", "h", "t", "m", "l">> -> <<"g">>

ExpectedYear(date) == IF date.year = 2025 THEN <<"2", "0", "2", "5">> ELSE <<"2", "0", "2", "4">>
ExpectedMonth(date) == IF date.month = 12 THEN <<"1", "2">> ELSE <<"0", "1">>
ExpectedDay(date) == IF date.day = 12 THEN <<"1", "2">> ELSE <<"0", "5">>
ExpectedDate(date) ==
    ExpectedYear(date) \o <<"-">> \o ExpectedMonth(date) \o <<"-">>
    \o ExpectedDay(date)

\* C15: {stem} becomes the file name without its known extension and without
\* a syntactically valid leading YYYY-MM-DD- prefix; {date}, {year}, {month}
\* and {day} come zero-padded from the metadata date, never from the file
\* name; any other placeholder stays as it is.
C15_ResolvePattern ==
    TaskAfter({"resolved", "done"}) =>
        LET stem == ExpectedStem(task.filename)
            d == task.date
        IN /\ task.pattern = StemPattern => task.resolved = stem
           /\ task.pattern = DateStemPattern =>
                 task.resolved = ExpectedDate(d) \o <<"-">> \o stem
           /\ task.pattern = <<"{", "d", "a", "t", "e", "}", "/", "{", "s", "t", "e", "m", "}">> =>
                 task.resolved = ExpectedDate(d) \o <<"/">> \o stem
           /\ task.pattern = <<"{", "y", "e", "a", "r", "}", "/", "{", "m", "o", "n", "t", "h", "}", "/", "{", "d", "a", "y", "}", "/", "{", "s", "t", "e", "m", "}", "-", "{", "s", "l", "u", "g", "}">> =>
                 task.resolved =
                    ExpectedYear(d) \o <<"/">> \o ExpectedMonth(d) \o <<"/">>
                    \o ExpectedDay(d) \o <<"/">> \o stem \o <<"-", "{", "s", "l", "u", "g", "}">>

\* a file name with a date prefix, resolved with the date of the metadata
C15_Witness ==
    /\ task.at = "done"
    /\ task.filename = <<"2", "0", "2", "4", "-", "0", "1", "-", "1", "5", "-", "a", ".", "m", "d">>
    /\ task.pattern = DateStemPattern
    /\ task.resolved = <<"2", "0", "2", "5", "-", "1", "2", "-", "1", "2", "-", "a">>

----------------------------------------------------------------------------
(* C17 .. C20: the outputs written from the loaded content *)

\* the build wrote its last output
BuildDone == pc = "done"

\* C17: in one build no two distinct content items resolve to the same output
\* path, so no page is overwritten by another page of the same build.
C17_Original ==
    loaded.some =>
        \A i, j \in DOMAIN loaded.items :
            loaded.items[i].output_path = loaded.items[j].output_path => i = j

SiteUrl == <<"h", "t", "t", "p", "s", ":", "/", "/", "x", ".", "i", "o">>
DeclaredTypes == DOMAIN config.content

\* C18: the sitemap holds one entry for the homepage, one for the index of
\* each declared content type and one for each content item, 1 + |types| +
\* |items| in all, also when there is no content; only the entries of the
\* items carry a lastmod date.
C18_SitemapEntries ==
    \A k \in WrittenOfKind("sitemap") :
        LET entries == written[k].body
            n == Cardinality(DeclaredTypes)
        IN /\ Len(entries) = 1 + n + Len(loaded.items)
           /\ entries[1] = [loc |-> SiteUrl \o <<"/">>, lastmod |-> None]
           /\ {entries[i].loc : i \in 2..(1 + n)}
                 = {SiteUrl \o <<"/">> \o t \o <<"/">> : t \in DeclaredTypes}
           /\ \A i \in 2..(1 + n) : entries[i].lastmod = None
           /\ \A i \in 1..Len(loaded.items) :
                 entries[1 + n + i].lastmod
                    = Some(ExpectedDate(loaded.items[i].date))

\* a sitemap of two declared types and two items
C18_Witness ==
    /\ BuildDone
    /\ Cardinality(DeclaredTypes) = 2
    /\ Len(loaded.items) = 2
    /\ \E k \in WrittenOfKind("sitemap") :
          /\ Len(written[k].body) = 5
          /\ written[k].body[5].lastmod = Some(<<"2", "0", "2", "5", "-", "1", "2", "-", "1", "2">>)

\* the content type is configured with rss_include = false
ExcludedFromFeed(content_type) ==
    /\ content_type \in DeclaredTypes
    /\ config.content[content_type].rss_include = Some(FALSE)

\* date a is the date b or a later one
NotOlder(a, b) ==
    \/ a.year > b.year
    \/ a.year = b.year /\ a.month > b.month
    \/ a.year = b.year /\ a.month = b.month /\ a.day >= b.day

\* C19: the feed holds exactly one item for each content item whose type is
\* not configured with rss_include = false (undeclared types and types with
\* the flag unset are included), none for an excluded type, and its items are
\* in non-increasing order of date whatever the order of the loaded content.
C19_FeedItems ==
    \A k \in WrittenOfKind("feed") :
        LET items == written[k].body
            included == {i \in DOMAIN loaded.items :
                            ~ExcludedFromFeed(loaded.items[i].content_type)}
        IN /\ Len(items) = Cardinality(included)
           /\ \E from \in [DOMAIN items -> included] :
                 /\ \A i, j \in DOMAIN items : from[i] = from[j] => i = j
                 /\ \A i \in DOMAIN items :
                       /\ items[i].source = loaded.items[from[i]].path
                       /\ items[i].date = loaded.items[from[i]].date
           /\ \A i \in 1..(Len(items) - 1) : NotOlder(items[i].date, items[i + 1].date)

\* a feed of an item of the excluded type docs and an item of an undeclared
\* type: only the latter is in the feed
C19_Witness ==
    /\ BuildDone
    /\ Len(loaded.items) = 2
    /\ loaded.items[1].content_type = Docs
    /\ ExcludedFromFeed(Docs)
    /\ loaded.items[2].content_type \notin DeclaredTypes
    /\ \E k \in WrittenOfKind("feed") :
          /\ Len(written[k].body) = 1
          /\ written[k].body[1].source = loaded.items[2].path

\* <outputDir>/<type>/index.html
TypeIndexPath(content_type) ==
    OutputDir \o <<"/">> \o content_type \o <<"/">> \o <<"i", "n", "d", "e", "x", ".", "h", "t", "m", "l">>

\* the positions of the loaded items of a content type
ItemsOfType(content_type) ==
    {i \in DOMAIN loaded.items : loaded.items[i].content_type = content_type}

\* C20: a successful build writes, for each declared content type, exactly one
\* index file <outputDir>/<type>/index.html, also when no item has the type;
\* the index lists exactly the items of the type, newest first whatever the
\* order of the loaded content; an item of an undeclared type gets its page
\* and no type index.
C20_TypeIndexes ==
    BuildDone =>
        /\ \A t \in DeclaredTypes :
              LET ks == {k \in WrittenOfKind("type_index") :
                            written[k].path = TypeIndexPath(t)}
              IN /\ Cardinality(ks) = 1
                 /\ \A k \in ks :
                       LET listed == written[k].body.contents
                       IN /\ Len(listed) = Cardinality(ItemsOfType(t))
                          /\ \E from \in [DOMAIN listed -> ItemsOfType(t)] :
                                /\ \A i, j \in DOMAIN listed :
                                      from[i] = from[j] => i = j
                                /\ \A i \in DOMAIN listed :
                                      listed[i].source = loaded.items[from[i]].path
                          /\ \A i \in 1..(Len(listed) - 1) :
                                NotOlder(listed[i].date, listed[i + 1].date)
        /\ \A k \in WrittenOfKind("type_index") :
              \E t \in DeclaredTypes : written[k].path = TypeIndexPath(t)
        /\ \A i \in DOMAIN loaded.items :
              \E k \in WrittenOfKind("page") :
                 /\ written[k].path = loaded.items[i].output_path
                 /\ written[k].body.source = loaded.items[i].path

\* two blog items loaded oldest first and no docs item: the blog index lists
\* the newer item first, the docs index is written and lists nothing
C20_Witness ==
    /\ BuildDone
    /\ DeclaredTypes = {Blog, Docs}
    /\ Len(loaded.items) = 2
    /\ ItemsOfType(Blog) = {1, 2}
    /\ \E k \in WrittenOfKind("type_index") :
          /\ written[k].path = TypeIndexPath(Blog)
          /\ Len(written[k].body.contents) = 2
          /\ written[k].body.contents[1].source = loaded.items[2].path
    /\ \E k \in WrittenOfKind("type_index") :
          /\ written[k].path = TypeIndexPath(Docs)
          /\ written[k].body.contents = <<>>

----------------------------------------------------------------------------
(* C21 .. C30 *)

\* the item a page was rendered from
ItemOfPage(k) ==
    loaded.items[CHOOSE i \in DOMAIN loaded.items :
                    loaded.items[i].path = written[k].body.source]

\* C21: a page is rendered with the template its metadata declares, if any;
\* only an item without a template field gets the content template of its
\* content type, or default.html when the type is undeclared.
C21_Original ==
    \A k \in WrittenOfKind("page") :
        LET item == ItemOfPage(k)
        IN written[k].body.template =
              (IF item.template # None THEN item.template[1]
               ELSE IF item.content_type \in DeclaredTypes
               THEN config.content[item.content_type].content_template
               ELSE DefaultHtml)

\* the stage that writes the files of a kind
StageOfKind(kind) ==
    CASE kind = "page" -> "pages"
      [] kind = "type_index" -> "indexes"
      [] kind = "site_index" -> "site_index"
      [] kind = "sitemap" -> "sitemap"
      [] kind = "feed" -> "feed"
      [] kind = "redirect" -> "redirects"

\* the place of a stage in the build of the configuration
StageIndex(stage) ==
    CHOOSE k \in 1..Len(BuildStages(config)) : BuildStages(config)[k] = stage

\* the build holds an error exactly when it has returned it: the stages before
\* the failing one, and no other, have completed; the error is the failing
\* stage's (of the transform: the error of a task) and no file of a later
\* stage exists
ErrorEndsTheBuild ==
    /\ pc = "failed" => buildError.some
    /\ buildError.some =>
        LET stages == BuildStages(config)
            n == Len(stageLog)
        IN /\ pc = "failed"
           /\ stageLog = SubSeq(stages, 1, n)
           /\ IF stages[n + 1] = "transform"
              THEN buildError = savedError /\ ~loaded.some
              ELSE buildError.stage = stages[n + 1]
           /\ \A k \in 1..Len(written) :
                 StageIndex(StageOfKind(written[k].kind)) <= n + 1

\* C22: when a stage of the build returns an error the build returns that
\* error immediately: no later stage is started and nothing is written after
\* the failing step.
C22_FirstErrorEndsTheBuild ==
    []ErrorEndsTheBuild /\ [][~buildError.some]_vars

\* the render of a type index failed after the pages had been written
C22_Witness ==
    /\ pc = "failed"
    /\ buildError = StageError("indexes")
    /\ WrittenOfKind("page") # {}
    /\ WrittenOfKind("site_index") = {}
    /\ stageLog[Len(stageLog)] = "pages"

\* the stub path the three rules give for the sources of the model
ExpectedStub(from_path) ==
    CASE from_path = <<"/", "o", "l", "d">> -> <<"o", "u", "t", "/", "o", "l", "d", "/", "i", "n", "d", "e", "x", ".", "h", "t", "m", "l">>
      [] from_path = <<"/", "/", "n", "/">> -> <<"o", "u", "t", "/", "n", "/", "i", "n", "d", "e", "x", ".", "h", "t", "m", "l">>
      [] from_path = <<"/", "o", ".", "h", "t", "m", "l">> -> <<"o", "u", "t", "/", "o", ".", "h", "t", "m", "l">>
      [] from_path = <<>> -> <<"o", "u", "t", "/", "/", "i", "n", "d", "e", "x", ".", "h", "t", "m", "l">>

\* C23: a successful build writes one stub for every redirect entry, under the
\* output directory, at the source path without its leading slashes: a source
\* ending in '/' gives <outputDir>/<path>index.html, one ending in '.html'
\* gives <outputDir>/<path>, any other gives <outputDir>/<path>/index.html.
C23_Original ==
    BuildDone =>
        \A from_path \in DOMAIN config.redirects :
            LET stubs == {k \in WrittenOfKind("redirect") : written[k].id = from_path}
            IN /\ Cardinality(stubs) = 1
               /\ \A k \in stubs :
                     /\ Components(written[k].path) = Components(ExpectedStub(from_path))
                     /\ strip_prefix(written[k].path, OutputDir).ok

BuildsInFlight == watch.started - watch.finished

\* at most one build is in flight and it is the one the loop waits for; the
\* loop has ended only with the channel closed and empty
OneBuildAtATime ==
    /\ BuildsInFlight \in {0, 1}
    /\ (watch.at = "build") = (BuildsInFlight = 1)
    /\ watch.at = "stopped" => (watch.closed /\ watch.queue = <<>>)

\* an event is taken from the channel only with no build in flight; a build in
\* flight ends only by returning, and the loop then goes on, whatever the
\* result
BuildsRunToCompletion ==
    /\ Len(watch'.queue) < Len(watch.queue) => BuildsInFlight = 0
    /\ (watch.at = "build" /\ watch'.at # "build") =>
          /\ watch'.finished = watch.finished + 1
          /\ watch'.at \in {"spawn", "recv"}

\* C24: in watch mode at most one build is in flight and none is cancelled:
\* a triggered build has returned, with success or failure, before the next
\* event is taken from the channel; a failed build, initial or triggered,
\* leaves the watcher running; the loop ends only when the channel is closed.
C24_OneBuildNeverCancelled ==
    []OneBuildAtATime /\ [][BuildsRunToCompletion]_vars

\* the initial build and a triggered build both failed, a third build runs
C24_Witness ==
    /\ watch.at = "build"
    /\ watch.failed = 2
    /\ watch.started = 3
    /\ watch.queue # <<>>

\* C29: in watch mode every file-change event is eventually followed by a
\* rebuild that starts after the event was delivered: the debounce drops no
\* event without a later rebuild that covers it.
C29_Original ==
    \A n \in 1..MaxEvents : (watch.emitted >= n) ~> (watch.covered >= n)

----------------------------------------------------------------------------
(* utils.rs: header anchors *)

UpperCase == <<"A", "B", "C", "D", "E", "F", "G", "H", "I", "J", "K", "L", "M", "N", "O", "P", "Q", "R", "S", "T", "U", "V", "W", "X", "Y", "Z">>
LowerCase == <<"a", "b", "c", "d", "e", "f", "g", "h", "i", "j", "k", "l", "m", "n", "o", "p", "q", "r", "s", "t", "u", "v", "w", "x", "y", "z">>

\* char::to_ascii_lowercase of 'A'..='Z'
to_ascii_lowercase(c) ==
    LowerCase[CHOOSE i \in 1..Len(UpperCase) : UpperCase[i] = c]

InRange(c, chars) == \E i \in 1..Len(chars) : chars[i] = c

\* the first loop of slugify: the characters kept, lowercased or turned into '-'
RECURSIVE SlugChars(_)
SlugChars(text) ==
    IF text = <<>> THEN <<>>
    ELSE LET c == Head(text)
             kept == IF InRange(c, UpperCase) THEN <<to_ascii_lowercase(c)>>
                     ELSE IF InRange(c, LowerCase) \/ IsAsciiDigit(c) THEN <<c>>
                     ELSE IF c \in {" ", "_"} THEN <<"-">>
                     ELSE IF c = "-" THEN <<"-">>
                     ELSE <<>>
         IN kept \o SlugChars(Tail(text))

\* the second loop of slugify: runs of hyphens collapse, leading hyphens go
RECURSIVE CollapseHyphens(_, _)
CollapseHyphens(s, prev_hyphen) ==
    IF s = <<>> THEN <<>>
    ELSE IF Head(s) = "-"
    THEN (IF prev_hyphen THEN <<>> ELSE <<"-">>) \o CollapseHyphens(Tail(s), TRUE)
    ELSE <<Head(s)>> \o CollapseHyphens(Tail(s), FALSE)

slugify(text) ==
    LET collapsed == CollapseHyphens(SlugChars(text), TRUE)
    IN IF collapsed # <<>> /\ collapsed[Len(collapsed)] = "-"
       THEN SubSeq(collapsed, 1, Len(collapsed) - 1)
       ELSE collapsed

RECURSIVE StripTags(_, _)
StripTags(html, in_tag) ==
    IF html = <<>> THEN <<>>
    ELSE IF Head(html) = "<" THEN StripTags(Tail(html), TRUE)
    ELSE IF Head(html) = ">" THEN StripTags(Tail(html), FALSE)
    ELSE IF ~in_tag THEN <<Head(html)>> \o StripTags(Tail(html), in_tag)
    ELSE StripTags(Tail(html), in_tag)

strip_html_tags(html) == StripTags(html, FALSE)

\* str::find(pat): index of the first occurrence, 0 if there is none
StrFind(s, pat) ==
    LET hits == {i \in 1..(Len(s) + 1 - Len(pat)) :
                    SubSeq(s, i, i + Len(pat) - 1) = pat}
    IN IF hits = {} THEN 0 ELSE CHOOSE i \in hits : \A j \in hits : i <= j

\* a usize formatted with {}
RECURSIVE UsizeToString(_)
UsizeToString(n) ==
    IF n < 10 THEN <<DecimalDigits[n + 1]>>
    ELSE UsizeToString(n \div 10) \o <<DecimalDigits[(n % 10) + 1]>>

\* let slug = if let Some(count) = slug_counts.get(&base_slug) { .. } else { .. }
duplicate_slug(slug_counts, base_slug) ==
    IF base_slug \in DOMAIN slug_counts
    THEN base_slug \o <<"-">> \o UsizeToString(slug_counts[base_slug])
    ELSE base_slug

\* format!("<h{} id=\"{}\"><a href=\"#{}\">{}</a></h{}>", ..)
AnchoredHeader(level, slug, content) ==
    <<"<", "h">> \o <<level>> \o <<" ", "i", "d", "=">> \o <<"\"">> \o slug \o <<"\"">>
    \o <<">", "<", "a", " ", "h", "r", "e", "f", "=">> \o <<"\"", "#">> \o slug \o <<"\"", ">">> \o content
    \o <<"<", "/", "a", ">", "<", "/", "h">> \o <<level>> \o <<">">>

\* the documents: up to MaxFragments pieces, headers and other text
Fragment(header, level, attrs, content) ==
    [header |-> header, level |-> level, attrs |-> attrs, content |-> content]

Fragments ==
    { Fragment(TRUE, "1", <<>>, <<"a">>),
      Fragment(TRUE, "2", <<" ", "c">>, <<"<", "i", ">", "A", "<", "/", "i", ">">>),
      Fragment(TRUE, "2", <<>>, <<"a", " ", "1">>),
      Fragment(FALSE, "", <<>>, <<"p">>),
      Fragment(FALSE, "", <<>>, <<"<", "h", "r">>) }

RenderFragment(f) ==
    IF f.header
    THEN <<"<", "h">> \o <<f.level>> \o f.attrs \o <<">">> \o f.content
         \o <<"<", "/", "h">> \o <<f.level>> \o <<">">>
    ELSE f.content

RECURSIVE RenderDocument(_)
RenderDocument(doc) ==
    IF doc = <<>> THEN <<>>
    ELSE RenderFragment(Head(doc)) \o RenderDocument(Tail(doc))

Documents == UNION {[1..n -> Fragments] : n \in 1..MaxFragments}

InitAnchors ==
    /\ \E doc \in Documents :
          task = [at |-> "scan", doc |-> doc, remaining |-> RenderDocument(doc),
                  result |-> <<>>, slug_counts |-> EmptyMap, slugs |-> <<>>]
    /\ IdleFileSystem
    /\ NoBuild
    /\ watch = NoWatch
    /\ tracing = NoTracing

\* remaining, from the "<h" the loop found
AtHeaderStart == SubSeq(task.remaining, StrFind(task.remaining, <<"<", "h">>),
                        Len(task.remaining))

BeforeHeaderStart == SubSeq(task.remaining, 1,
                            StrFind(task.remaining, <<"<", "h">>) - 1)

CloseTag(level) == <<"<", "/", "h">> \o <<level>> \o <<">">>

\* the three nested conditions under which the tag is rewritten
IsHeaderTag(rem) ==
    /\ Len(rem) >= 4
    /\ rem[3] \in {"1", "2", "3", "4", "5", "6"}
    /\ rem[4] \in {">", " "}
    /\ StrFind(rem, CloseTag(rem[3])) # 0
    /\ StrFind(SubSeq(rem, 1, StrFind(rem, CloseTag(rem[3])) - 1), <<">">>) # 0

\* one iteration that rewrites a header and continues
AnchorsHeader ==
    /\ task.at = "scan"
    /\ StrFind(task.remaining, <<"<", "h">>) # 0
    /\ IsHeaderTag(AtHeaderStart)
    /\ LET rem == AtHeaderStart
           level == rem[3]
           close_pos == StrFind(rem, CloseTag(level))
           open_end == StrFind(SubSeq(rem, 1, close_pos - 1), <<">">>)
           content == SubSeq(rem, open_end + 1, close_pos - 1)
           base_slug == slugify(strip_html_tags(content))
           slug == duplicate_slug(task.slug_counts, base_slug)
           count == IF base_slug \in DOMAIN task.slug_counts
                    THEN task.slug_counts[base_slug] ELSE 0
       IN task' = [task EXCEPT
                     !.result = task.result \o BeforeHeaderStart
                                \o AnchoredHeader(level, slug, content),
                     !.slug_counts = (base_slug :> (count + 1)) @@ task.slug_counts,
                     !.slugs = Append(task.slugs, slug),
                     !.remaining = SubSeq(rem, close_pos + Len(CloseTag(level)),
                                          Len(rem))]

\* one iteration at a "<h" that is no header: the character is copied
AnchorsSkip ==
    /\ task.at = "scan"
    /\ StrFind(task.remaining, <<"<", "h">>) # 0
    /\ Len(AtHeaderStart) >= 4
    /\ ~IsHeaderTag(AtHeaderStart)
    /\ task' = [task EXCEPT
                  !.result = task.result \o BeforeHeaderStart
                             \o <<Head(AtHeaderStart)>>,
                  !.remaining = Tail(AtHeaderStart)]

\* fewer than four characters left at a "<h": the rest is pushed, the loop
\* breaks, and the push after the loop adds the rest once more
AnchorsBreak ==
    /\ task.at = "scan"
    /\ StrFind(task.remaining, <<"<", "h">>) # 0
    /\ Len(AtHeaderStart) < 4
    /\ task' = [task EXCEPT
                  !.at = "anchored",
                  !.result = task.result \o BeforeHeaderStart \o AtHeaderStart
                             \o AtHeaderStart,
                  !.remaining = AtHeaderStart]

\* no "<h" left: the rest is added and the result returned
AnchorsReturn ==
    /\ task.at = "scan"
    /\ StrFind(task.remaining, <<"<", "h">>) = 0
    /\ task' = [task EXCEPT !.at = "anchored",
                            !.result = task.result \o task.remaining]

NextAnchors ==
    \/ AnchorsHeader /\ UNCHANGED <<fsVars, buildVars, watch, tracing>>
    \/ AnchorsSkip /\ UNCHANGED <<fsVars, buildVars, watch, tracing>>
    \/ AnchorsBreak /\ UNCHANGED <<fsVars, buildVars, watch, tracing>>
    \/ AnchorsReturn /\ UNCHANGED <<fsVars, buildVars, watch, tracing>>

SpecAnchors == InitAnchors /\ [][NextAnchors]_vars

----------------------------------------------------------------------------
(* C25 *)

HeadersOf(doc) == SelectSeq(doc, LAMBDA f : f.header)

BaseSlugOf(f) == slugify(strip_html_tags(f.content))

\* the bare slug for the first header with that slug, then -1, -2, ..
NumberedSlug(hs, i) ==
    LET earlier == Cardinality({j \in 1..(i - 1) : BaseSlugOf(hs[j]) = BaseSlugOf(hs[i])})
    IN IF earlier = 0 THEN BaseSlugOf(hs[i])
       ELSE BaseSlugOf(hs[i]) \o <<"-">> \o UsizeToString(earlier)

\* C25: add_header_anchors gives every h1-h6 header of the document an id
\* with a matching anchor link, the first header with a slug gets the bare
\* slug and the later ones -1, -2, .. in order, and the ids assigned within
\* the document are pairwise distinct.
C25_Original ==
    task.at = "anchored" =>
        LET hs == HeadersOf(task.doc)
        IN /\ Len(task.slugs) = Len(hs)
           /\ \A i \in 1..Len(hs) :
                 /\ task.slugs[i] = NumberedSlug(hs, i)
                 /\ StrFind(task.result,
                            AnchoredHeader(hs[i].level, task.slugs[i],
                                           hs[i].content)) # 0
           /\ \A i, j \in 1..Len(hs) : i # j => task.slugs[i] # task.slugs[j]

\* the same without the distinctness of the ids
C25_NumberedOnly ==
    task.at = "anchored" =>
        LET hs == HeadersOf(task.doc)
        IN /\ Len(task.slugs) = Len(hs)
           /\ \A i \in 1..Len(hs) :
                 /\ task.slugs[i] = NumberedSlug(hs, i)
                 /\ StrFind(task.result,
                            AnchoredHeader(hs[i].level, task.slugs[i],
                                           hs[i].content)) # 0

----------------------------------------------------------------------------
(* C26 .. C28 *)

TransformFailed == pc = "failed" /\ savedError.some

ErrorOfTask(i) == [some |-> TRUE, path |-> files[i], kind |-> taskState[i]]

\* the failing file that comes first in the discovery order
EarliestFailedInDiscoveryOrder == CHOOSE i \in Failed : \A j \in Failed : i <= j

\* the failing task that finished first
FirstFailedInTime ==
    completed[CHOOSE k \in 1..Len(completed) :
                 /\ completed[k] \in Failed
                 /\ \A l \in 1..(k - 1) : completed[l] \notin Failed]

\* C26 as stated: the error that ends the build is the error of the earliest
\* failing file in discovery order, whichever task failed first in time.
C26_Original ==
    TransformFailed => buildError = ErrorOfTask(EarliestFailedInDiscoveryOrder)

\* C26: the error that ends a build whose transform failed is the error of
\* the task that failed first in time; the errors of tasks failing later are
\* dropped, whatever their place in the discovery order.
C26_FirstFailureInTime ==
    /\ savedError.some => /\ Failed # {}
                          /\ savedError = ErrorOfTask(FirstFailedInTime)
    /\ TransformFailed => buildError = ErrorOfTask(FirstFailedInTime)

\* two files failed and the later one in discovery order failed first
C26_Witness ==
    /\ TransformFailed
    /\ Cardinality(Failed) >= 2
    /\ FirstFailedInTime # EarliestFailedInDiscoveryOrder
    /\ buildError.path = files[FirstFailedInTime]

\* C27: in one successful build the paths written by the page loop, the type
\* indexes, the site index, the sitemap, the feed and the redirect stubs are
\* pairwise distinct: no step overwrites what an earlier step wrote.
C27_Original ==
    BuildDone =>
        \A k, l \in 1..Len(written) :
            written[k].path = written[l].path => k = l

\* the same for every pair of writes that are not both content pages
C27_ApartFromPagePairs ==
    BuildDone =>
        \A k, l \in 1..Len(written) :
            /\ written[k].path = written[l].path
            /\ ~(written[k].kind = "page" /\ written[l].kind = "page")
            => k = l

\* C28: after every successful build, with asset hashing on or off, every
\* file of the static source that root_static does not send to the output
\* root exists at its mirrored path under output/static, the css and js files
\* whose own names look hashed included.
C28_StaticSourceMirrored ==
    BuildDone => \A p \in DOMAIN src : ~IsRootFile(p) => p \in DOMAIN out

\* a successful build with hashing: the cleanup removed the stale file and the
\* mirrored copy of the hashed-looking source, the sync brought the copy back
\* and kept the root file out of output/static
C28_Witness ==
    /\ BuildDone
    /\ config.asset_hashing_enabled
    /\ removedCount = 2
    /\ PathHashed \in DOMAIN src /\ PathHashed \in DOMAIN out
    /\ out[PathHashed].mtime > StaleOutput[PathHashed].mtime
    /\ IsRootFile(PathIco) /\ PathIco \in DOMAIN src /\ PathIco \notin DOMAIN out

----------------------------------------------------------------------------
(* C30 *)

\* the stages a build has finished, and the one it is in, are the stages of
\* run_build in their order
FollowsRunBuild ==
    LET stages == BuildStages(config)
    IN IF pc = "failed"
       THEN /\ Len(stageLog) < Len(stages)
            /\ stageLog = SubSeq(stages, 1, Len(stageLog))
            /\ buildError.some
       ELSE /\ Len(stageLog) < Len(stages)
            /\ stageLog \o <<pc>> = SubSeq(stages, 1, Len(stageLog) + 1)
            /\ ~buildError.some

\* the files a successful build wrote: a page for each loaded item, in their
\* order and at their output paths, then an index for each declared type, the
\* site index, the sitemap and the feed if enabled, a stub for each redirect
WroteTheOutputsOfRunBuild ==
    LET kinds == [k \in 1..Len(written) |-> written[k].kind]
        n == Len(loaded.items)
        t == Cardinality(DOMAIN config.content)
    IN /\ kinds = [k \in 1..n |-> "page"]
                  \o [k \in 1..t |-> "type_index"]
                  \o <<"site_index">>
                  \o (IF config.sitemap_enabled THEN <<"sitemap">> ELSE <<>>)
                  \o (IF config.rss_enabled THEN <<"feed">> ELSE <<>>)
                  \o [k \in 1..Cardinality(DOMAIN config.redirects) |-> "redirect"]
       /\ \A k \in 1..n : /\ written[k].path = loaded.items[k].output_path
                          /\ written[k].id = loaded.items[k].path
                          /\ written[k].env = create_environment_with_manifest
       /\ {written[k].id : k \in WrittenOfKind("type_index")} = DOMAIN config.content
       /\ {written[k].id : k \in WrittenOfKind("redirect")} = DOMAIN config.redirects
       /\ \A k \in WrittenOfKind("site_index") :
             written[k].body = render_index_from_loaded(config, loaded.items,
                                                        loaded.items)
       /\ \A k \in WrittenOfKind("feed") :
             written[k].body = generate_rss(config, loaded.items)
       /\ \A k \in WrittenOfKind("sitemap") :
             \E keys \in KeyOrders(config.content) :
                written[k].body = generate_sitemap(config, loaded.items, keys)

\* the spans entered so far: none through build, the spans of the stages
\* entered so far, a failed one included, through build_with_spans
SpansOf(stages) ==
    LET traced == SelectSeq(stages, LAMBDA s : s \in DOMAIN StageSpan)
    IN [k \in 1..Len(traced) |-> StageSpan[traced[k]]]

OnlyTracingDiffers ==
    tracing.spans =
        IF tracing.entry = "build" THEN <<>>
        ELSE SpansOf(SubSeq(BuildStages(config), 1, Len(stageLog) + 1))

====
